---- MODULE Spec2Model ----
(***************************************************************************)
(* A model of the geometry reconstruction pipeline of XofY                 *)
(* (docs/js/geometryParser.js and web/js/boundingBox.js).                  *)
(*                                                                         *)
(* The pipeline is synchronous, pure computation: every function is an     *)
(* operator computed the way the code computes it (loops become RECURSIVE  *)
(* operators that follow the loop's control flow).  Each specification     *)
(* draws the arguments of one entry point from a bounded set (Init) and    *)
(* has one action per call of that entry point.                            *)
(*                                                                         *)
(* Numbers.  A coordinate value is an integer counting units of 1e-8       *)
(* degree, one decimal digit finer than the 7 fractional digits that       *)
(* coordinateToKey keeps, so that two different coordinates can have the   *)
(* same key.  A [lon, lat] pair is the tuple <<lon, lat>>; a {lat, lon}    *)
(* point is the record [lat |-> .., lon |-> ..].                           *)
(***************************************************************************)
EXTENDS Integers, Sequences, FiniteSets, TLC

VARIABLES
    pc,     \* "ready": the call has not been made; "done": it has returned or thrown
    args,   \* the arguments of the call (a record, one field per parameter)
    ret,    \* the outcome of the call: [threw |-> .., value |-> ..]
    locals, \* the local variables of the function whose loop is running
    currentGeometries,  \* main.js 461: the geometry list of the page
    lazyLoadState,      \* main.js 471-479
    gridContainer,      \* the items of the grid, in document order
    timers              \* the callbacks that setTimeout holds

page == <<currentGeometries, lazyLoadState, gridContainer, timers>>
vars == <<pc, args, ret, locals, page>>

\* The values of the variables that a specification does not use.
NoLocals == <<>>
NoPage ==
    /\ currentGeometries = <<>>
    /\ lazyLoadState = <<>>
    /\ gridContainer = <<>>
    /\ timers = <<>>

NoReturn == [threw |-> "", value |-> <<>>]
Return(v) == [threw |-> "", value |-> v]
\* An Error with a type property; value carries its details.
Throw(type, details) == [threw |-> type, value |-> details]

---------------------------------------------------------------------------
(* Sequence helpers (Array.prototype operations used by the code).         *)

Last(s) == s[Len(s)]
Reverse(s) == [i \in 1..Len(s) |-> s[Len(s) + 1 - i]]
RemoveAt(s, i) == SubSeq(s, 1, i - 1) \o SubSeq(s, i + 1, Len(s))
Front(s) == SubSeq(s, 1, Len(s) - 1)
Range(s) == {s[i] : i \in 1..Len(s)}
SetMin(S) == CHOOSE x \in S : \A y \in S : x <= y
SetMax(S) == CHOOSE x \in S : \A y \in S : x >= y
SeqsUpTo(S, n) == UNION {[1..k -> S] : k \in 0..n}

RECURSIVE Flat(_)
Flat(ss) == IF ss = <<>> THEN <<>> ELSE Head(ss) \o Flat(Tail(ss))

RECURSIVE SumLen(_)
SumLen(ss) == IF ss = <<>> THEN 0 ELSE Len(Head(ss)) + SumLen(Tail(ss))

---------------------------------------------------------------------------
(* Fixture coordinates, in units of 1e-8 degree.  PA, PB, PC are the       *)
(* points (0,0), (1,1), (2,2); PD and PM are (2,0) and (1,0).              *)

Deg == 10^8
PA == <<0, 0>>
PB == <<Deg, Deg>>
PC == <<2 * Deg, 2 * Deg>>
PD == <<2 * Deg, 0>>
PM == <<Deg, 0>>

---------------------------------------------------------------------------
(* coordsEqual, geometryParser.js 104-106: exact equality of both numbers. *)
coordsEqual(coord1, coord2) == coord1[1] = coord2[1] /\ coord1[2] = coord2[2]

(***************************************************************************)
(* JavaScript values.  undefined is the value of a property an object does *)
(* not have; a number is any other value of a point's lat or lon.  A tags  *)
(* object is the set of its <<key, value>> pairs (keys unique); a missing  *)
(* tags object behaves as the empty one in every use the code makes of it  *)
(* (tags || {}, tags?.[key]) and is modelled by it.                        *)
(***************************************************************************)
undefined == -1
IsNumber(v) == v # undefined

HasTag(tags, key) == \E t \in tags : t[1] = key
TagValue(tags, key) == (CHOOSE t \in tags : t[1] = key)[2]
\* if (tags[key]): the key is present with a non-empty value.
TagTruthy(tags, key) == HasTag(tags, key) /\ TagValue(tags, key) # ""
\* tags[key] === value
TagIs(tags, key, value) == HasTag(tags, key) /\ TagValue(tags, key) = value
\* {...tags, key: value}
WithTag(tags, key, value) == {t \in tags : t[1] # key} \cup {<<key, value>>}

(***************************************************************************)
(* isClosed, geometryParser.js 14-23, on a sequence of {lat, lon} points.  *)
(***************************************************************************)
\* A mutant of isClosed: two points are enough.
IsClosedFromTwoPoints(geometry) ==
    IF Len(geometry) < 2
    THEN FALSE
    ELSE geometry[1].lat = Last(geometry).lat /\ geometry[1].lon = Last(geometry).lon

isClosed(geometry) ==
    IF Len(geometry) < 3
    THEN FALSE
    ELSE geometry[1].lat = Last(geometry).lat /\ geometry[1].lon = Last(geometry).lon

(***************************************************************************)
(* isArea, geometryParser.js 31-96.                                        *)
(***************************************************************************)
AreaKeys == {"building", "landuse", "amenity", "shop", "building:part",
             "boundary", "historic", "place", "area:highway"}
AreaHighways == {"rest_area", "services", "platform"}
LinearLeisure == {"picnic_table", "slipway", "firepit"}
AreaNatural == {"water", "wood", "scrub", "land", "grassland", "heath",
                "rock", "bare_rock", "sand", "beach", "scree", "glacier",
                "shingle", "fell", "reef", "stone", "mud", "landslide"}

isArea(tags) ==
    IF tags = {} THEN FALSE
    ELSE IF TagIs(tags, "area", "yes") THEN TRUE
    ELSE IF TagIs(tags, "area", "no") THEN FALSE
    ELSE IF \E key \in AreaKeys : TagTruthy(tags, key) THEN TRUE
    ELSE IF TagTruthy(tags, "highway") /\ TagValue(tags, "highway") \in AreaHighways THEN TRUE
    ELSE IF TagIs(tags, "railway", "platform") THEN TRUE
    ELSE IF TagIs(tags, "aeroway", "aerodrome") THEN TRUE
    ELSE IF TagTruthy(tags, "leisure") /\ TagValue(tags, "leisure") \notin LinearLeisure THEN TRUE
    ELSE IF TagTruthy(tags, "natural") /\ TagValue(tags, "natural") \in AreaNatural THEN TRUE
    ELSE FALSE

(***************************************************************************)
(* calculateBounds, boundingBox.js 11-48.  processCoordinate visits every  *)
(* array of the nesting; an array whose first two elements are numbers is  *)
(* a [lon, lat] pair, any other is descended into, and a value that is no  *)
(* array is skipped.  The callers pass a list of pairs, or a list of rings *)
(* (calculateBoundsNested); none passes an empty list, on which the code   *)
(* throws (lines 12-14).                                                   *)
(***************************************************************************)
Infinity == 2^29

IsPair(coord) == IsNumber(coord[1]) /\ IsNumber(coord[2])

Min2(a, b) == IF a <= b THEN a ELSE b
Max2(a, b) == IF a >= b THEN a ELSE b

\* The fold of lines 26-30 over the pairs of a list, in order.
RECURSIVE ProcessCoordinates(_, _)
ProcessCoordinates(coordinates, box) ==
    IF coordinates = <<>>
    THEN box
    ELSE LET coord == Head(coordinates)
         IN  ProcessCoordinates(Tail(coordinates),
                 IF IsPair(coord)
                 THEN [minLat |-> Min2(box.minLat, coord[2]), maxLat |-> Max2(box.maxLat, coord[2]),
                       minLon |-> Min2(box.minLon, coord[1]), maxLon |-> Max2(box.maxLon, coord[1])]
                 ELSE box)

\* Lines 16-19: the box before the first pair.
EmptyBox == [minLat |-> Infinity, maxLat |-> -Infinity, minLon |-> Infinity, maxLon |-> -Infinity]

\* Lines 40-47.  -Infinity - Infinity is -Infinity.
BoundsOf(box) ==
    [minLat |-> box.minLat, maxLat |-> box.maxLat,
     minLon |-> box.minLon, maxLon |-> box.maxLon,
     width |-> IF box.maxLon = -Infinity THEN -Infinity ELSE box.maxLon - box.minLon,
     height |-> IF box.maxLat = -Infinity THEN -Infinity ELSE box.maxLat - box.minLat]

\* A mutant of calculateBounds: only the first and the last pair are looked at.
CalculateBoundsOfEnds(coordinates) ==
    BoundsOf(ProcessCoordinates(<<coordinates[1], Last(coordinates)>>, EmptyBox))

calculateBounds(coordinates) == BoundsOf(ProcessCoordinates(coordinates, EmptyBox))

\* calculateBounds of a list of rings: the recursion of line 33.
calculateBoundsNested(rings) == calculateBounds(Flat(rings))

(***************************************************************************)
(* generateComponentId, geometryParser.js 122-124.  A string is the        *)
(* sequence of its parts: the prefix, the decimal digits of each id and    *)
(* the separators.  Ids are natural numbers.                               *)
(***************************************************************************)
RECURSIVE InsertAscending(_, _)
InsertAscending(sorted, a) ==
    IF sorted = <<>>
    THEN <<a>>
    ELSE IF Head(sorted) <= a
    THEN <<Head(sorted)>> \o InsertAscending(Tail(sorted), a)
    ELSE <<a>> \o sorted

RECURSIVE SortAscending(_, _)
SortAscending(ids, sorted) ==
    IF ids = <<>> THEN sorted ELSE SortAscending(Tail(ids), InsertAscending(sorted, Head(ids)))

DigitOf(d) == <<"0", "1", "2", "3", "4", "5", "6", "7", "8", "9">>[d + 1]

\* String(n) of a natural number.
RECURSIVE NumberToString(_)
NumberToString(n) ==
    IF n < 10 THEN <<DigitOf(n)>> ELSE NumberToString(n \div 10) \o <<DigitOf(n % 10)>>

\* Array.prototype.join on numbers.
RECURSIVE Join(_, _)
Join(ids, separator) ==
    IF ids = <<>> THEN <<>>
    ELSE IF Len(ids) = 1 THEN NumberToString(ids[1])
    ELSE NumberToString(Head(ids)) \o <<separator>> \o Join(Tail(ids), separator)

\* A mutant of generateComponentId: the ids are joined as they come.
GenerateComponentIdUnsorted(wayIds) == <<"component_">> \o Join(wayIds, "_")

generateComponentId(wayIds) == <<"component_">> \o Join(SortAscending(wayIds, <<>>), "_")

(***************************************************************************)
(* aggregateTagsForComponent, geometryParser.js 131-139.  The string of    *)
(* the ids joined by ',' is the list of the ids.                           *)
(***************************************************************************)
aggregateTagsForComponent(ways) ==
    LET named == {i \in 1..Len(ways) : TagTruthy(ways[i].tags, "name")}
        primary == IF named = {} THEN ways[1] ELSE ways[SetMin(named)]
    IN  WithTag(WithTag(primary.tags, "_component_way_count", Len(ways)),
                "_component_way_ids", [i \in 1..Len(ways) |-> ways[i].id])

(***************************************************************************)
(* mergeWaysIntoRings, geometryParser.js 146-230.                          *)
(***************************************************************************)

\* The four orientation tests of the candidate scan (lines 189-207).
Connects(current, candidate) ==
    \/ coordsEqual(Last(current), candidate[1])
    \/ coordsEqual(Last(current), Last(candidate))
    \/ coordsEqual(current[1], Last(candidate))
    \/ coordsEqual(current[1], candidate[1])

\* A mutant of Splice: the end-to-end case appends the candidate unreversed.
SpliceNoReverse(current, candidate) ==
    IF coordsEqual(Last(current), candidate[1])
    THEN current \o Tail(candidate)
    ELSE IF coordsEqual(Last(current), Last(candidate))
    THEN current \o Front(candidate)
    ELSE IF coordsEqual(current[1], Last(candidate))
    THEN Front(candidate) \o current
    ELSE Reverse(Tail(candidate)) \o current

\* The splice chosen by the first matching test (lines 189-213).
Splice(current, candidate) ==
    IF coordsEqual(Last(current), candidate[1])
    THEN current \o Tail(candidate)
    ELSE IF coordsEqual(Last(current), Last(candidate))
    THEN current \o Reverse(Front(candidate))
    ELSE IF coordsEqual(current[1], Last(candidate))
    THEN Front(candidate) \o current
    ELSE Reverse(Tail(candidate)) \o current

\* The for loop of lines 181-214: the first remaining chain that connects, 0 if none.
FirstConnecting(current, remaining) ==
    LET hits == {i \in 1..Len(remaining) : Connects(current, remaining[i])}
    IN  IF hits = {} THEN 0 ELSE SetMin(hits)

\* A mutant of ExtendRing: a closed accumulator is extended like any other.
RECURSIVE ExtendRingGreedy(_, _)
ExtendRingGreedy(current, remaining) ==
    IF remaining = <<>>
    THEN [current |-> current, remaining |-> remaining, committed |-> FALSE]
    ELSE LET i == FirstConnecting(current, remaining)
         IN  IF i = 0
             THEN [current |-> current, remaining |-> remaining, committed |-> FALSE]
             ELSE ExtendRingGreedy(Splice(current, remaining[i]), RemoveAt(remaining, i))

\* The inner while loop of lines 170-215 (entered with merged = true).
\* committed: the loop pushed current as a ring and set it to null.
RECURSIVE ExtendRing(_, _)
ExtendRing(current, remaining) ==
    IF remaining = <<>>
    THEN [current |-> current, remaining |-> remaining, committed |-> FALSE]
    ELSE IF coordsEqual(current[1], Last(current))
    THEN [current |-> current, remaining |-> remaining, committed |-> TRUE]
    ELSE LET i == FirstConnecting(current, remaining)
         IN  IF i = 0
             THEN [current |-> current, remaining |-> remaining, committed |-> FALSE]
             ELSE ExtendRing(Splice(current, remaining[i]), RemoveAt(remaining, i))

\* A mutant of MergeLoop: an accumulator that stays open ends the loop with
\* the rings committed so far.
RECURSIVE MergeLoopPartial(_, _)
MergeLoopPartial(remaining, rings) ==
    IF remaining = <<>>
    THEN rings
    ELSE LET r == ExtendRing(Head(remaining), Tail(remaining))
         IN  IF r.committed \/ coordsEqual(r.current[1], Last(r.current))
             THEN MergeLoopPartial(r.remaining, Append(rings, r.current))
             ELSE rings

\* The outer while loop of lines 164-227.
RECURSIVE MergeLoop(_, _)
MergeLoop(remaining, rings) ==
    IF remaining = <<>>
    THEN rings
    ELSE LET r == ExtendRing(Head(remaining), Tail(remaining))
         IN  IF r.committed \/ coordsEqual(r.current[1], Last(r.current))
             THEN MergeLoop(r.remaining, Append(rings, r.current))
             ELSE <<>>

mergeWaysIntoRings(ways) ==
    IF Len(ways) = 0
    THEN <<>>
    ELSE IF Len(ways) = 1
    THEN IF coordsEqual(ways[1][1], Last(ways[1])) THEN <<ways[1]>> ELSE <<>>
    ELSE MergeLoop(ways, <<>>)


(***************************************************************************)
(* JavaScript Map: insertion-ordered keys and a value per key.             *)
(***************************************************************************)
EmptyMap == [keys |-> <<>>, val |-> <<>>]
MapHas(m, k) == k \in DOMAIN m.val
MapGet(m, k) == m.val[k]
MapSet(m, k, v) ==
    IF MapHas(m, k)
    THEN [m EXCEPT !.val[k] = v]
    ELSE [keys |-> Append(m.keys, k), val |-> m.val @@ (k :> v)]

(***************************************************************************)
(* coordinateToKey, geometryParser.js 113-115: both numbers rounded to 7   *)
(* fractional digits; the key string "lon,lat" is the pair of the two      *)
(* rounded numerals, counted in units of 1e-7 degree.                      *)
(***************************************************************************)
\* Number.prototype.toFixed(7) of a value v >= 0 given in units of 1e-8:
\* the nearest multiple of 1e-7, the larger one on a tie.
toFixed7(v) == (v + 5) \div 10

coordinateToKey(coord) == <<toFixed7(coord[1]), toFixed7(coord[2])>>

FirstNode(way) == coordinateToKey(way.coordinates[1])
LastNode(way) == coordinateToKey(Last(way.coordinates))

(***************************************************************************)
(* buildEndpointMap, geometryParser.js 237-260.                            *)
(***************************************************************************)
MapPush(m, k, entry) ==
    IF MapHas(m, k) THEN MapSet(m, k, Append(MapGet(m, k), entry)) ELSE MapSet(m, k, <<entry>>)

\* A mutant of AddEndpoints: the end entry is added for every way.
AddEndpointsBoth(m, way) ==
    MapPush(MapPush(m, FirstNode(way), [wayId |-> way.id, position |-> "start"]),
            LastNode(way), [wayId |-> way.id, position |-> "end"])

AddEndpoints(m, way) ==
    LET withFirst == MapPush(m, FirstNode(way), [wayId |-> way.id, position |-> "start"])
    IN  IF FirstNode(way) # LastNode(way)
        THEN MapPush(withFirst, LastNode(way), [wayId |-> way.id, position |-> "end"])
        ELSE withFirst

RECURSIVE BuildEndpointLoop(_, _, _)
BuildEndpointLoop(ways, i, m) ==
    IF i > Len(ways) THEN m ELSE BuildEndpointLoop(ways, i + 1, AddEndpoints(m, ways[i]))

buildEndpointMap(ways) == BuildEndpointLoop(ways, 1, EmptyMap)

(***************************************************************************)
(* detectComplexity, geometryParser.js 269-308.                            *)
(***************************************************************************)
WAY_COUNT_THRESHOLD == 1000
COMPLEXITY_THRESHOLD == 3

\* nodeKey.split(',').map(Number): the rounded numerals read back as numbers.
KeyToCoords(nodeKey) == <<nodeKey[1] * 10, nodeKey[2] * 10>>

\* The forEach of lines 280-290: one entry per key with more than
\* COMPLEXITY_THRESHOLD connections, in the map's key order.
ComplexNodes(endpointMap) ==
    LET complexKeys == SelectSeq(endpointMap.keys,
                           LAMBDA k : Len(MapGet(endpointMap, k)) > COMPLEXITY_THRESHOLD)
    IN  [i \in 1..Len(complexKeys) |->
            [coords |-> KeyToCoords(complexKeys[i]),
             connectionCount |-> Len(MapGet(endpointMap, complexKeys[i])),
             wayIds |-> [j \in 1..Len(MapGet(endpointMap, complexKeys[i])) |->
                            MapGet(endpointMap, complexKeys[i])[j].wayId]]]

\* Array.prototype.sort with (a, b) => b.connectionCount - a.connectionCount
\* (line 294): descending, stable.
RECURSIVE InsertByCount(_, _)
InsertByCount(sorted, node) ==
    IF sorted = <<>>
    THEN <<node>>
    ELSE IF Head(sorted).connectionCount >= node.connectionCount
    THEN <<Head(sorted)>> \o InsertByCount(Tail(sorted), node)
    ELSE <<node>> \o sorted

RECURSIVE SortByCount(_, _)
SortByCount(nodes, sorted) ==
    IF nodes = <<>> THEN sorted ELSE SortByCount(Tail(nodes), InsertByCount(sorted, Head(nodes)))

\* A mutant of detectComplexity: a key with exactly COMPLEXITY_THRESHOLD
\* connections counts as complex.
DetectComplexityInclusive(endpointMap, wayCount) ==
    IF wayCount < WAY_COUNT_THRESHOLD
    THEN Return(<<>>)
    ELSE IF \E k \in DOMAIN endpointMap.val : Len(MapGet(endpointMap, k)) >= COMPLEXITY_THRESHOLD
    THEN Throw("NETWORK_TOO_COMPLEX",
               [complexNodeCount |->
                    Cardinality({k \in DOMAIN endpointMap.val :
                                    Len(MapGet(endpointMap, k)) >= COMPLEXITY_THRESHOLD}),
                threshold |-> COMPLEXITY_THRESHOLD,
                topComplexNodes |-> <<>>])
    ELSE Return(<<>>)

\* Returns Return(<<>>) (undefined) or the thrown error; the error's message
\* and suggestion strings are left out.
detectComplexity(endpointMap, wayCount) ==
    IF wayCount < WAY_COUNT_THRESHOLD
    THEN Return(<<>>)
    ELSE LET complexNodes == ComplexNodes(endpointMap)
             sorted == SortByCount(complexNodes, <<>>)
         IN  IF Len(complexNodes) > 0
             THEN Throw("NETWORK_TOO_COMPLEX",
                        [complexNodeCount |-> Len(complexNodes),
                         threshold |-> COMPLEXITY_THRESHOLD,
                         topComplexNodes |-> SubSeq(sorted, 1, IF Len(sorted) < 5 THEN Len(sorted) ELSE 5)])
             ELSE Return(<<>>)

(***************************************************************************)
(* new Map(ways.map(w => [w.id, w])): the last way of an id wins.          *)
(***************************************************************************)
WayMapOf(ways) ==
    [id \in {ways[i].id : i \in 1..Len(ways)} |->
        ways[SetMax({i \in 1..Len(ways) : ways[i].id = id})]]

(***************************************************************************)
(* findConnectedComponents, geometryParser.js 316-360.                     *)
(***************************************************************************)
\* A mutant of Connections: only the ways that start at the key are found.
ConnectionsFromStarts(endpointMap, nodeKey) ==
    IF MapHas(endpointMap, nodeKey)
    THEN SelectSeq(MapGet(endpointMap, nodeKey), LAMBDA conn : conn.position = "start")
    ELSE <<>>

\* endpointMap.get(nodeKey) || []
Connections(endpointMap, nodeKey) ==
    IF MapHas(endpointMap, nodeKey) THEN MapGet(endpointMap, nodeKey) ELSE <<>>

\* The way ids of the connections that are not visited, in order (lines 348-352).
Unvisited(connections, visited) ==
    SelectSeq([i \in 1..Len(connections) |-> connections[i].wayId],
              LAMBDA id : id \notin visited)

\* A mutant of BFS: a dequeued way is not checked against visited again.
RECURSIVE BFSNoRecheck(_, _, _, _, _)
BFSNoRecheck(wayMap, endpointMap, queue, visited, component) ==
    IF queue = <<>>
    THEN [visited |-> visited, component |-> component]
    ELSE LET currentId == Head(queue)
             seen == visited \cup {currentId}
             currentWay == wayMap[currentId]
             pushed ==
                 Unvisited(Connections(endpointMap, FirstNode(currentWay)), seen)
                     \o Unvisited(Connections(endpointMap, LastNode(currentWay)), seen)
         IN  BFSNoRecheck(wayMap, endpointMap, Tail(queue) \o pushed, seen,
                          Append(component, currentId))

\* The while loop of lines 330-354.
RECURSIVE BFS(_, _, _, _, _)
BFS(wayMap, endpointMap, queue, visited, component) ==
    IF queue = <<>>
    THEN [visited |-> visited, component |-> component]
    ELSE LET currentId == Head(queue)
         IN  IF currentId \in visited
             THEN BFS(wayMap, endpointMap, Tail(queue), visited, component)
             ELSE LET seen == visited \cup {currentId}
                      currentWay == wayMap[currentId]
                      pushed ==
                          Unvisited(Connections(endpointMap, FirstNode(currentWay)), seen)
                              \o Unvisited(Connections(endpointMap, LastNode(currentWay)), seen)
                  IN  BFS(wayMap, endpointMap, Tail(queue) \o pushed, seen,
                          Append(component, currentId))

\* The ways.forEach of lines 321-357.
RECURSIVE ComponentsLoop(_, _, _, _, _)
ComponentsLoop(ways, endpointMap, i, visited, components) ==
    IF i > Len(ways)
    THEN components
    ELSE IF ways[i].id \in visited
    THEN ComponentsLoop(ways, endpointMap, i + 1, visited, components)
    ELSE LET r == BFS(WayMapOf(ways), endpointMap, <<ways[i].id>>, visited, <<>>)
         IN  ComponentsLoop(ways, endpointMap, i + 1, r.visited,
                            Append(components, r.component))

findConnectedComponents(ways, endpointMap) ==
    ComponentsLoop(ways, endpointMap, 1, {}, <<>>)

(***************************************************************************)
(* orderComponentIntoPath, geometryParser.js 370-467.  The code assigns    *)
(* the start way object its reversed coordinates (line 421), so the        *)
(* operator returns the chains together with the way map as the call       *)
(* leaves it.                                                              *)
(***************************************************************************)
\* nodeDegree of lines 377-387, as a function of the keys it holds.
NodeDegree(componentWayIds, wayMap) ==
    LET memberWays == [i \in 1..Len(componentWayIds) |-> wayMap[componentWayIds[i]]]
        nodes == UNION {{FirstNode(memberWays[i]), LastNode(memberWays[i])} :
                            i \in 1..Len(memberWays)}
    IN  [n \in nodes |->
            Cardinality({i \in 1..Len(memberWays) : FirstNode(memberWays[i]) = n})
          + Cardinality({i \in 1..Len(memberWays) :
                            /\ FirstNode(memberWays[i]) # LastNode(memberWays[i])
                            /\ LastNode(memberWays[i]) = n})]

\* terminalNodes of lines 390-395.
TerminalNodes(nodeDegree) == {n \in DOMAIN nodeDegree : nodeDegree[n] = 1}

\* A mutant of IsBranching: a node of degree 3 is not looked for.
IsBranchingByTerminals(nodeDegree) == Cardinality(TerminalNodes(nodeDegree)) > 2

\* The test of line 399.
IsBranching(nodeDegree) ==
    \/ Cardinality(TerminalNodes(nodeDegree)) > 2
    \/ \E n \in DOMAIN nodeDegree : nodeDegree[n] = 3

\* The for loop of lines 410-425: the first member way that touches a
\* terminal (0 if none).
FirstTerminalWay(componentWayIds, wayMap, terminalNodes) ==
    LET hits == {i \in 1..Len(componentWayIds) :
                    \/ FirstNode(wayMap[componentWayIds[i]]) \in terminalNodes
                    \/ LastNode(wayMap[componentWayIds[i]]) \in terminalNodes}
    IN  IF hits = {} THEN 0 ELSE SetMin(hits)

\* The for loop of lines 438-458: the first connection to an unused member way (0 if none).
NextConnection(connections, used, componentWayIds) ==
    LET hits == {i \in 1..Len(connections) :
                    /\ connections[i].wayId \notin used
                    /\ connections[i].wayId \in Range(componentWayIds)}
    IN  IF hits = {} THEN 0 ELSE SetMin(hits)

\* A mutant of Extend: a way met at its last vertex is appended unreversed.
ExtendNoReverse(orderedCoords, nextWay, currentEndNode) ==
    IF FirstNode(nextWay) = currentEndNode \/ LastNode(nextWay) = currentEndNode
    THEN orderedCoords \o Tail(nextWay.coordinates)
    ELSE orderedCoords

\* Lines 444-452: the next way's coordinates appended in the orientation that
\* continues from currentEndNode, without their first vertex.
Extend(orderedCoords, nextWay, currentEndNode) ==
    IF FirstNode(nextWay) = currentEndNode
    THEN orderedCoords \o Tail(nextWay.coordinates)
    ELSE IF LastNode(nextWay) = currentEndNode
    THEN orderedCoords \o Tail(Reverse(nextWay.coordinates))
    ELSE orderedCoords

\* The while loop of lines 432-464.
RECURSIVE Walk(_, _, _, _, _)
Walk(orderedCoords, used, componentWayIds, wayMap, endpointMap) ==
    IF Cardinality(used) >= Len(componentWayIds)
    THEN orderedCoords
    ELSE LET currentEndNode == coordinateToKey(Last(orderedCoords))
             connections == Connections(endpointMap, currentEndNode)
             i == NextConnection(connections, used, componentWayIds)
         IN  IF i = 0
             THEN orderedCoords
             ELSE Walk(Extend(orderedCoords, wayMap[connections[i].wayId], currentEndNode),
                       used \cup {connections[i].wayId},
                       componentWayIds, wayMap, endpointMap)

orderComponentIntoPath(componentWayIds, wayMap, endpointMap) ==
    IF Len(componentWayIds) = 1
    THEN [chains |-> <<wayMap[componentWayIds[1]].coordinates>>, wayMap |-> wayMap]
    ELSE LET nodeDegree == NodeDegree(componentWayIds, wayMap)
             terminalNodes == TerminalNodes(nodeDegree)
         IN  IF IsBranching(nodeDegree)
             THEN [chains |-> [i \in 1..Len(componentWayIds) |->
                                  wayMap[componentWayIds[i]].coordinates],
                   wayMap |-> wayMap]
             ELSE LET t == FirstTerminalWay(componentWayIds, wayMap, terminalNodes)
                      currentWayId == IF t = 0 THEN componentWayIds[1] ELSE componentWayIds[t]
                      start == wayMap[currentWayId]
                      reversed ==
                          /\ t # 0
                          /\ LastNode(start) \in terminalNodes
                          /\ FirstNode(start) \notin terminalNodes
                      oriented ==
                          IF reversed
                          THEN [wayMap EXCEPT ![currentWayId].coordinates = Reverse(@)]
                          ELSE wayMap
                  IN  [chains |-> <<Walk(oriented[currentWayId].coordinates, {currentWayId},
                                         componentWayIds, oriented, endpointMap)>>,
                       wayMap |-> oriented]

(***************************************************************************)
(* The batch of open ways.  A way of the batch is the record               *)
(* [id, tags, coordinates] of lines 840-844.  To reach the way counts of   *)
(* the complexity guard, a batch is the list openWays followed by `bulk`   *)
(* further ways that are not listed one by one: each of them is untagged,  *)
(* has two numeric points and shares no endpoint key with any other way.   *)
(* Such a way adds one to the batch's length and two keys of one           *)
(* connection each to the endpoint map, is a component of its own and      *)
(* is emitted as one LineString; the outputs count these LineStrings in    *)
(* bulkGeometries.                                                         *)
(***************************************************************************)

\* coordinateToKey throws a TypeError on a pair with an undefined number
\* (undefined.toFixed); buildEndpointMap applies it to the first and the
\* last pair of every way (lines 241-242).
BuildEndpointMapThrows(ways) ==
    \E i \in 1..Len(ways) :
        \/ ~IsPair(ways[i].coordinates[1])
        \/ ~IsPair(Last(ways[i].coordinates))

\* The geometry object of a one-way component, lines 564-574 (and 512-522,
\* 870-879).
LineStringOf(way) ==
    [id |-> way.id,
     type |-> "way",
     tags |-> way.tags,
     geometry |-> [type |-> "LineString", coordinates |-> way.coordinates],
     bounds |-> calculateBounds(way.coordinates)]

\* The geometry object of a component of several ways, lines 577-594 (and
\* 524-539), given its chains.
ComponentOf(componentWayIds, wayMap, linestrings) ==
    [id |-> generateComponentId(componentWayIds),
     type |-> "component",
     sourceWayIds |-> componentWayIds,
     tags |-> aggregateTagsForComponent(
                  [i \in 1..Len(componentWayIds) |-> wayMap[componentWayIds[i]]]),
     geometry |-> [type |-> IF Len(linestrings) = 1 THEN "LineString" ELSE "MultiLineString",
                   coordinates |-> IF Len(linestrings) = 1 THEN linestrings[1] ELSE linestrings],
     bounds |-> calculateBounds(Flat(linestrings))]

\* Lines 577-594 (and 524-539): the geometry of a component of several
\* ways pushed, given the outcome r of orderComponentIntoPath.
PushComponent(componentWayIds, r, geometries) ==
    [geometries |-> Append(geometries, ComponentOf(componentWayIds, r.wayMap, r.chains)),
     wayMap |-> r.wayMap]

\* The callback of components.forEach, lines 561-596 (and 510-541), on the
\* geometries pushed and the way objects so far.
ProcessComponent(componentWayIds, acc, endpointMap) ==
    IF Len(componentWayIds) = 1
    THEN [geometries |-> Append(acc.geometries, LineStringOf(acc.wayMap[componentWayIds[1]])),
          wayMap |-> acc.wayMap]
    ELSE PushComponent(componentWayIds,
                       orderComponentIntoPath(componentWayIds, acc.wayMap, endpointMap),
                       acc.geometries)

RECURSIVE ProcessComponents(_, _, _, _)
ProcessComponents(components, i, acc, endpointMap) ==
    IF i > Len(components)
    THEN acc
    ELSE ProcessComponents(components, i + 1,
                           ProcessComponent(components[i], acc, endpointMap), endpointMap)

\* The way objects of a list after the calls that replaced the coordinates
\* of some by their reverse (line 421).
Mutated(ways, wayMap) ==
    [i \in 1..Len(ways) |-> IF ways[i].id \in DOMAIN wayMap THEN wayMap[ways[i].id] ELSE ways[i]]

\* The outcome of coalescing a list of ways: the exception thrown, if any,
\* the geometries pushed, and the way objects as the call leaves them.
Thrown(ways, threw, details) ==
    [threw |-> threw, details |-> details, geometries |-> <<>>,
     bulkGeometries |-> 0, openWays |-> ways]

Coalesced(ways, bulk, r) ==
    [threw |-> "", details |-> <<>>, geometries |-> r.geometries,
     bulkGeometries |-> bulk, openWays |-> Mutated(ways, r.wayMap)]

\* Lines 555-596 (and 506-541): components found and processed.
CoalesceConnected(ways, bulk, endpointMap) ==
    Coalesced(ways, bulk,
              ProcessComponents(findConnectedComponents(ways, endpointMap), 1,
                                [geometries |-> <<>>, wayMap |-> WayMapOf(ways)],
                                endpointMap))

\* Lines 552-596: the complexity guard, then the components.
GuardedCoalesce(openWays, bulk, endpointMap) ==
    LET guard == detectComplexity(endpointMap, Len(openWays) + bulk)
    IN  IF guard.threw # ""
        THEN Thrown(openWays, guard.threw, guard.value)
        ELSE CoalesceConnected(openWays, bulk, endpointMap)

\* Lines 549-598, the ungrouped branch, on a batch of openWays and bulk
\* further ways.
CoalesceWhole(openWays, bulk) ==
    IF BuildEndpointMapThrows(openWays)
    THEN Thrown(openWays, "TypeError", <<>>)
    ELSE GuardedCoalesce(openWays, bulk, buildEndpointMap(openWays))

\* A mutant of CoalesceGroup: a group passes the complexity guard as the
\* whole batch does.
CoalesceGroupGuarded(waysInGroup, bulk) == CoalesceWhole(waysInGroup, bulk)

\* Lines 498-541, the body of waysByTagValue.forEach, on one group.
CoalesceGroup(waysInGroup, bulk) ==
    IF BuildEndpointMapThrows(waysInGroup)
    THEN Thrown(waysInGroup, "TypeError", <<>>)
    ELSE CoalesceConnected(waysInGroup, bulk, buildEndpointMap(waysInGroup))

\* A mutant of GroupValue: every way falls into the group of the empty string.
GroupValueIgnored(way, groupByTag) == ""

\* Line 490: way.tags?.[groupByTag] || ''.
GroupValue(way, groupByTag) ==
    IF TagTruthy(way.tags, groupByTag) THEN TagValue(way.tags, groupByTag) ELSE ""

\* Lines 487-495: the keys of waysByTagValue in insertion order.  The bulk
\* ways come last in the batch and are untagged.
RECURSIVE GroupKeys(_, _, _)
GroupKeys(openWays, groupByTag, keys) ==
    IF openWays = <<>>
    THEN keys
    ELSE LET tagValue == GroupValue(Head(openWays), groupByTag)
         IN  GroupKeys(Tail(openWays), groupByTag,
                       IF tagValue \in Range(keys) THEN keys ELSE Append(keys, tagValue))

\* Mutant: the ways are grouped by having a value, whatever it is.
WaysByTagPresence(openWays, groupByTag, tagValue) ==
    SelectSeq(openWays, LAMBDA way : (GroupValue(way, groupByTag) = "") = (tagValue = ""))

\* Lines 487-495: the ways filed under one key of waysByTagValue.
WaysByTagValue(openWays, groupByTag, tagValue) ==
    SelectSeq(openWays, LAMBDA way : GroupValue(way, groupByTag) = tagValue)

\* Mutant: the geometries of a group replace those of the groups before.
JoinGroupLast(acc, r) ==
    IF r.threw # ""
    THEN Thrown(Mutated(acc.openWays, WayMapOf(r.openWays)), r.threw, r.details)
    ELSE [threw |-> "", details |-> <<>>,
          geometries |-> r.geometries,
          bulkGeometries |-> r.bulkGeometries,
          openWays |-> Mutated(acc.openWays, WayMapOf(r.openWays))]

\* The outcome acc of the groups so far joined with the outcome r of one
\* more group.
JoinGroup(acc, r) ==
    IF r.threw # ""
    THEN Thrown(Mutated(acc.openWays, WayMapOf(r.openWays)), r.threw, r.details)
    ELSE [threw |-> "", details |-> <<>>,
          geometries |-> acc.geometries \o r.geometries,
          bulkGeometries |-> acc.bulkGeometries + r.bulkGeometries,
          openWays |-> Mutated(acc.openWays, WayMapOf(r.openWays))]

\* Lines 498-542: the groups in insertion order; an exception ends the loop.
RECURSIVE CoalesceGroups(_, _, _, _)
CoalesceGroups(keys, acc, bulk, groupByTag) ==
    IF keys = <<>> \/ acc.threw # ""
    THEN acc
    ELSE CoalesceGroups(Tail(keys),
                        JoinGroup(acc,
                                  CoalesceGroup(WaysByTagValue(acc.openWays, groupByTag, Head(keys)),
                                                IF Head(keys) = "" THEN bulk ELSE 0)),
                        bulk, groupByTag)

(***************************************************************************)
(* coalesceOpenWays, geometryParser.js 475-599.  The warnings it returns   *)
(* are always empty.                                                       *)
(***************************************************************************)
coalesceOpenWays(openWays, bulk, options) ==
    IF Len(openWays) + bulk = 0
    THEN Thrown(openWays, "", <<>>)
    ELSE IF options.groupByEnabled
    THEN LET keys == GroupKeys(openWays, options.groupByTag, <<>>)
         IN  CoalesceGroups(IF bulk > 0 /\ "" \notin Range(keys) THEN Append(keys, "") ELSE keys,
                            Thrown(openWays, "", <<>>), bulk, options.groupByTag)
    ELSE CoalesceWhole(openWays, bulk)

(***************************************************************************)
(* Raw elements.  An element is the record [type, id, tags, geometry,      *)
(* members]; a property the JSON does not have is the empty sequence,      *)
(* which the code treats as it treats a missing one (!element.geometry ||  *)
(* element.geometry.length === 0, likewise for members).  An entry of a    *)
(* geometry array is a {lat, lon} point or null.                           *)
(***************************************************************************)
null == [null |-> TRUE]

\* geometry.map(coord => [coord.lon, coord.lat]) throws a TypeError on a
\* null entry (lines 632, 745, 819).
MapThrows(geometry) == \E i \in 1..Len(geometry) : geometry[i] = null

ToCoordinates(geometry) == [i \in 1..Len(geometry) |-> <<geometry[i].lon, geometry[i].lat>>]

Warning(message, osmType, osmId) == [message |-> message, osmType |-> osmType, osmId |-> osmId]

\* The state of the elements.forEach of parseElements: the three arrays,
\* and the exception that ended the loop, if any.
Parsed(geometries, warnings, openWays, threw) ==
    [geometries |-> geometries, warnings |-> warnings, openWays |-> openWays, threw |-> threw]

(***************************************************************************)
(* parseRouteRelation, geometryParser.js 607-671, together with the push   *)
(* of its result (lines 707-711).                                          *)
(***************************************************************************)
ROUTE_MEMBER_WARNING_THRESHOLD == 100

\* A mutant of HasGaps: only the forward connection is accepted.
HasGapsForward(linestrings) ==
    \E i \in 1..(Len(linestrings) - 1) :
        ~coordsEqual(Last(linestrings[i]), linestrings[i + 1][1])

\* The for loop of lines 637-647.
HasGaps(linestrings) ==
    \E i \in 1..(Len(linestrings) - 1) :
        /\ ~coordsEqual(Last(linestrings[i]), linestrings[i + 1][1])
        /\ ~coordsEqual(Last(linestrings[i]), Last(linestrings[i + 1]))

parseRouteRelation(element, st) ==
    LET wayMembers == SelectSeq(element.members,
                                LAMBDA m : m.type = "way" /\ Len(m.geometry) > 0)
        many == IF Len(wayMembers) > ROUTE_MEMBER_WARNING_THRESHOLD
                THEN <<Warning("Route relation has many members (may be slow to render)",
                               "relation", element.id)>>
                ELSE <<>>
    IN  IF Len(wayMembers) = 0
        THEN [st EXCEPT !.warnings =
                 Append(@, Warning("Skipped route relation: No way members with geometry",
                                   "relation", element.id))]
        ELSE IF \E i \in 1..Len(wayMembers) : MapThrows(wayMembers[i].geometry)
        THEN [st EXCEPT !.warnings = @ \o many, !.threw = "TypeError"]
        ELSE LET linestrings == [i \in 1..Len(wayMembers) |-> ToCoordinates(wayMembers[i].geometry)]
                 gaps == IF HasGaps(linestrings)
                         THEN <<Warning("Route relation has gaps between members",
                                        "relation", element.id)>>
                         ELSE <<>>
             IN  [st EXCEPT
                     !.warnings = @ \o many \o gaps,
                     !.geometries = Append(@,
                         [id |-> element.id,
                          type |-> "relation",
                          tags |-> element.tags,
                          geometry |-> [type |-> "MultiLineString", coordinates |-> linestrings],
                          bounds |-> calculateBounds(Flat(linestrings))])]

(***************************************************************************)
(* The multipolygon branch of parseElements, lines 715-803.                *)
(***************************************************************************)
\* A member that the members.forEach of lines 738-752 does not skip.
HasWayGeometry(member) == member.type = "way" /\ Len(member.geometry) > 0

\* A mutant of RingsOfRole: the role is not looked at.
RingsOfRoleAny(members, role) ==
    LET chosen == SelectSeq(members, HasWayGeometry)
    IN  [i \in 1..Len(chosen) |-> ToCoordinates(chosen[i].geometry)]

RingsOfRole(members, role) ==
    LET chosen == SelectSeq(members, LAMBDA m : HasWayGeometry(m) /\ m.role = role)
    IN  [i \in 1..Len(chosen) |-> ToCoordinates(chosen[i].geometry)]

\* A mutant of PushMultipolygon: the inner rings are the holes of the first
\* polygon only.
PushMultipolygonHolesInFirst(element, st, mergedOuterRings, mergedInnerRings) ==
    IF Len(mergedOuterRings) = 0
    THEN [st EXCEPT !.warnings =
             Append(@, Warning("Skipped relation: Outer ways cannot be merged into closed rings",
                               "relation", element.id))]
    ELSE [st EXCEPT !.geometries = Append(@,
             [id |-> element.id,
              type |-> "relation",
              tags |-> element.tags,
              geometry |-> [type |-> "MultiPolygon",
                            coordinates |->
                                [k \in 1..Len(mergedOuterRings) |->
                                    IF k = 1 THEN <<mergedOuterRings[k]>> \o mergedInnerRings
                                    ELSE <<mergedOuterRings[k]>>]],
              bounds |-> calculateBoundsNested(mergedOuterRings \o mergedInnerRings)])]

\* Lines 766-803, given the merged rings.
PushMultipolygon(element, st, mergedOuterRings, mergedInnerRings) ==
    IF Len(mergedOuterRings) = 0
    THEN [st EXCEPT !.warnings =
             Append(@, Warning("Skipped relation: Outer ways cannot be merged into closed rings",
                               "relation", element.id))]
    ELSE [st EXCEPT !.geometries = Append(@,
             [id |-> element.id,
              type |-> "relation",
              tags |-> element.tags,
              geometry |-> [type |-> "MultiPolygon",
                            coordinates |->
                                [k \in 1..Len(mergedOuterRings) |->
                                    <<mergedOuterRings[k]>> \o mergedInnerRings]],
              bounds |-> calculateBoundsNested(mergedOuterRings \o mergedInnerRings)])]

\* A mutant of MergeMultipolygon: inner ways that give no ring are reported.
MergeMultipolygonStrict(element, st, outerWays, innerWays) ==
    IF Len(outerWays) = 0
    THEN [st EXCEPT !.warnings =
             Append(@, Warning("Skipped relation: No outer ways", "relation", element.id))]
    ELSE IF Len(innerWays) > 0 /\ Len(mergeWaysIntoRings(innerWays)) = 0
    THEN [st EXCEPT !.warnings =
             Append(@, Warning("Skipped relation: Inner ways cannot be merged into closed rings",
                               "relation", element.id))]
    ELSE PushMultipolygon(element, st, mergeWaysIntoRings(outerWays),
                          IF Len(innerWays) > 0 THEN mergeWaysIntoRings(innerWays) ELSE <<>>)

\* Lines 755-776, given the ways of the two roles.
MergeMultipolygon(element, st, outerWays, innerWays) ==
    IF Len(outerWays) = 0
    THEN [st EXCEPT !.warnings =
             Append(@, Warning("Skipped relation: No outer ways", "relation", element.id))]
    ELSE PushMultipolygon(element, st, mergeWaysIntoRings(outerWays),
                          IF Len(innerWays) > 0 THEN mergeWaysIntoRings(innerWays) ELSE <<>>)

ParseMultipolygon(element, st) ==
    IF ~TagIs(element.tags, "type", "multipolygon")
    THEN [st EXCEPT !.warnings =
             Append(@, Warning("Skipped relation: Not a multipolygon or route",
                               "relation", element.id))]
    ELSE IF Len(element.members) = 0
    THEN [st EXCEPT !.warnings =
             Append(@, Warning("Skipped relation: No members", "relation", element.id))]
    ELSE IF \E i \in 1..Len(element.members) :
                HasWayGeometry(element.members[i]) /\ MapThrows(element.members[i].geometry)
    THEN [st EXCEPT !.threw = "TypeError"]
    ELSE MergeMultipolygon(element, st, RingsOfRole(element.members, "outer"),
                           RingsOfRole(element.members, "inner"))

(***************************************************************************)
(* The way branch of parseElements, lines 807-846.                         *)
(***************************************************************************)
\* A mutant of IsPolygonWay: the area test is negated.
IsPolygonWayInverted(element) == isClosed(element.geometry) /\ ~isArea(element.tags)

\* Line 824.
IsPolygonWay(element) == isClosed(element.geometry) /\ isArea(element.tags)

\* A mutant of ParseWay: the Polygon holds its points as one ring of a
\* sequence of rings.
ParseWayRinged(element, st) ==
    IF Len(element.geometry) = 0
    THEN [st EXCEPT !.warnings =
             Append(@, Warning("Skipped way: No geometry data", "way", element.id))]
    ELSE IF MapThrows(element.geometry)
    THEN [st EXCEPT !.threw = "TypeError"]
    ELSE LET coordinates == ToCoordinates(element.geometry)
         IN  IF IsPolygonWay(element)
             THEN [st EXCEPT !.geometries = Append(@,
                      [id |-> element.id,
                       type |-> "way",
                       tags |-> element.tags,
                       geometry |-> [type |-> "Polygon", coordinates |-> <<coordinates>>],
                       bounds |-> calculateBounds(coordinates)])]
             ELSE [st EXCEPT !.openWays = Append(@,
                      [id |-> element.id, tags |-> element.tags, coordinates |-> coordinates])]

ParseWay(element, st) ==
    IF Len(element.geometry) = 0
    THEN [st EXCEPT !.warnings =
             Append(@, Warning("Skipped way: No geometry data", "way", element.id))]
    ELSE IF MapThrows(element.geometry)
    THEN [st EXCEPT !.threw = "TypeError"]
    ELSE LET coordinates == ToCoordinates(element.geometry)
         IN  IF IsPolygonWay(element)
             THEN [st EXCEPT !.geometries = Append(@,
                      [id |-> element.id,
                       type |-> "way",
                       tags |-> element.tags,
                       geometry |-> [type |-> "Polygon", coordinates |-> coordinates],
                       bounds |-> calculateBounds(coordinates)])]
             ELSE [st EXCEPT !.openWays = Append(@,
                      [id |-> element.id, tags |-> element.tags, coordinates |-> coordinates])]

\* A mutant of ParseElement: a node is skipped without a warning.
ParseElementSilentNode(element, st) ==
    IF element.type = "node"
    THEN st
    ELSE IF element.type = "relation"
    THEN IF TagIs(element.tags, "type", "route")
         THEN parseRouteRelation(element, st)
         ELSE ParseMultipolygon(element, st)
    ELSE IF element.type = "way"
    THEN ParseWay(element, st)
    ELSE st

\* The callback of elements.forEach, lines 692-847.  An element of a type
\* other than node, relation and way changes nothing.
ParseElement(element, st) ==
    IF element.type = "node"
    THEN [st EXCEPT !.warnings =
             Append(@, Warning("Skipped node: Nodes are not supported (only closed ways)",
                               "node", element.id))]
    ELSE IF element.type = "relation"
    THEN IF TagIs(element.tags, "type", "route")
         THEN parseRouteRelation(element, st)
         ELSE ParseMultipolygon(element, st)
    ELSE IF element.type = "way"
    THEN ParseWay(element, st)
    ELSE st

\* elements.forEach: an exception thrown by the callback ends the loop.
RECURSIVE ParseLoop(_, _)
ParseLoop(elements, st) ==
    IF elements = <<>> \/ st.threw # ""
    THEN st
    ELSE ParseLoop(Tail(elements), ParseElement(Head(elements), st))

(***************************************************************************)
(* parseElements, geometryParser.js 679-886.  options.groupByEnabled is a  *)
(* boolean (absent counts as false, line 685); options.groupByTag is a tag *)
(* key, or the empty string when the option is absent (both are replaced   *)
(* by 'name', line 686).  The batch of open ways is the ways the loop      *)
(* collected followed by bulk further ways (see above).                    *)
(***************************************************************************)
\* A mutant of CatchCoalescingError: the warning is added without the
\* fallback geometries.
CatchWithoutFallback(st, openWays, bulk) ==
    Return([geometries |-> st.geometries,
            warnings |-> Append(st.warnings,
                                [message |-> "Failed to coalesce open ways",
                                 osmType |-> "way",
                                 osmIds |-> [i \in 1..Len(openWays) |-> openWays[i].id],
                                 bulkIds |-> bulk]),
            bulkGeometries |-> 0])

\* Lines 859-881: the catch clause for an error that is not the complexity
\* error, on the way objects as the failed call left them.
CatchCoalescingError(st, openWays, bulk) ==
    Return([geometries |-> st.geometries \o [i \in 1..Len(openWays) |-> LineStringOf(openWays[i])],
            warnings |-> Append(st.warnings,
                                [message |-> "Failed to coalesce open ways",
                                 osmType |-> "way",
                                 osmIds |-> [i \in 1..Len(openWays) |-> openWays[i].id],
                                 bulkIds |-> bulk]),
            bulkGeometries |-> bulk])

\* Lines 852-882, given the outcome of coalesceOpenWays.
AfterCoalescing(st, coalesced, bulk) ==
    IF coalesced.threw = "NETWORK_TOO_COMPLEX"
    THEN Throw(coalesced.threw, coalesced.details)
    ELSE IF coalesced.threw # ""
    THEN CatchCoalescingError(st, coalesced.openWays, bulk)
    ELSE Return([geometries |-> st.geometries \o coalesced.geometries,
                 warnings |-> st.warnings,
                 bulkGeometries |-> coalesced.bulkGeometries])

\* Lines 849-885, given the arrays the loop filled.
AfterLoop(st, bulk, options) ==
    IF st.threw # ""
    THEN Throw(st.threw, <<>>)
    ELSE IF Len(st.openWays) + bulk > 0
    THEN AfterCoalescing(st, coalesceOpenWays(st.openWays, bulk, options), bulk)
    ELSE Return([geometries |-> st.geometries, warnings |-> st.warnings, bulkGeometries |-> 0])

\* Lines 685-686.
GroupingOptions(options) ==
    [groupByEnabled |-> options.groupByEnabled,
     groupByTag |-> IF options.groupByTag = "" THEN "name" ELSE options.groupByTag]

parseElements(elements, bulk, options) ==
    IF Len(elements) + bulk = 0
    THEN Return([geometries |-> <<>>, warnings |-> <<>>, bulkGeometries |-> 0])
    ELSE AfterLoop(ParseLoop(elements, Parsed(<<>>, <<>>, <<>>, "")), bulk,
                   GroupingOptions(options))

---------------------------------------------------------------------------
(* Specification of mergeWaysIntoRings: the chains are drawn from the      *)
(* chains between three junctions, with or without an interior vertex.     *)

MaxChains == 3

RingJunctions == {PA, PB, PC}
RingChains ==
    {<<p, q>> : p \in RingJunctions, q \in RingJunctions}
        \cup {<<p, PM, q>> : p \in RingJunctions, q \in RingJunctions}

InitRings ==
    /\ pc = "ready"
    /\ locals = NoLocals /\ NoPage
    /\ args \in {[ways |-> w] : w \in SeqsUpTo(RingChains, MaxChains)}
    /\ ret = NoReturn

CallMergeWaysIntoRings ==
    /\ pc = "ready"
    /\ UNCHANGED <<locals, page>>
    /\ ret' = Return(mergeWaysIntoRings(args.ways))
    /\ pc' = "done"
    /\ UNCHANGED args

NextRings == CallMergeWaysIntoRings

SpecRings == InitRings /\ [][NextRings]_vars

---------------------------------------------------------------------------
(* Specification of the endpoint graph functions: buildEndpointMap,        *)
(* findConnectedComponents and orderComponentIntoPath applied to a list of *)
(* ways the way coalesceOpenWays chains them (lines 549-577).              *)

MaxWays == 3

\* Input ids are distinct and not in input order: 2, 1, 4, 3, ...
ElementId(i) == IF i % 2 = 1 THEN i + 1 ELSE i - 1

GraphJunctions == {PA, PB, PC, PD}
GraphEnds == GraphJunctions \X GraphJunctions

\* p moved off the 1e-7 grid without leaving its key.
OffGrid(p) == <<p[1] + 2, p[2] + 1>>

\* The shapes of the ways of one input: two-point ways, ways through the
\* interior vertex PB, or two-point ways whose last point is off the grid.
GraphShapes == {"plain", "interior", "offgrid"}

ShapedCoordinates(ends, shape) ==
    IF shape = "interior" THEN <<ends[1], PB, ends[2]>>
    ELSE IF shape = "offgrid" THEN <<ends[1], OffGrid(ends[2])>>
    ELSE <<ends[1], ends[2]>>

GraphWays(ends, shape) ==
    [i \in 1..Len(ends) |->
        [id |-> ElementId(i), coordinates |-> ShapedCoordinates(ends[i], shape)]]

\* The components.forEach of lines 561-596, reduced to the chains it
\* computes: one orderComponentIntoPath call per multi-way component, each
\* on the way map the previous calls left.
RECURSIVE OrderAll(_, _, _, _, _)
OrderAll(components, i, wayMap, endpointMap, paths) ==
    IF i > Len(components)
    THEN [paths |-> paths, wayMap |-> wayMap]
    ELSE LET r == orderComponentIntoPath(components[i], wayMap, endpointMap)
         IN  OrderAll(components, i + 1, r.wayMap, endpointMap, Append(paths, r.chains))

GraphOf(ways) ==
    LET endpointMap == buildEndpointMap(ways)
        components == findConnectedComponents(ways, endpointMap)
        ordered == OrderAll(components, 1, WayMapOf(ways), endpointMap, <<>>)
    IN  [endpointMap |-> endpointMap, components |-> components,
         paths |-> ordered.paths, wayMap |-> ordered.wayMap]

InitGraph ==
    /\ pc = "ready"
    /\ locals = NoLocals /\ NoPage
    /\ \E n \in 0..MaxWays : \E ends \in [1..n -> GraphEnds] : \E shape \in GraphShapes :
          args = [ways |-> GraphWays(ends, shape)]
    /\ ret = NoReturn

CallGraph ==
    /\ pc = "ready"
    /\ UNCHANGED <<locals, page>>
    /\ ret' = Return(GraphOf(args.ways))
    /\ pc' = "done"
    /\ UNCHANGED args

NextGraph == CallGraph

SpecGraph == InitGraph /\ [][NextGraph]_vars

---------------------------------------------------------------------------
(* Specification of buildEndpointMap and findConnectedComponents alone, on *)
(* up to MaxLinkedWays ways of the shapes of SpecGraph between three       *)
(* junctions, one of them the interior vertex PB.                          *)
MaxLinkedWays == 3

LinkJunctions == {PA, PB, PC}
LinkEnds == LinkJunctions \X LinkJunctions

ComponentsOf(ways, endpointMap) ==
    [endpointMap |-> endpointMap, components |-> findConnectedComponents(ways, endpointMap)]

InitComponents ==
    /\ pc = "ready"
    /\ locals = NoLocals /\ NoPage
    /\ \E n \in 0..MaxLinkedWays : \E ends \in [1..n -> LinkEnds] : \E shape \in GraphShapes :
          args = [ways |-> GraphWays(ends, shape)]
    /\ ret = NoReturn

CallComponents ==
    /\ pc = "ready"
    /\ UNCHANGED <<locals, page>>
    /\ ret' = Return(ComponentsOf(args.ways, buildEndpointMap(args.ways)))
    /\ pc' = "done"
    /\ UNCHANGED args

NextComponents == CallComponents

SpecComponents == InitComponents /\ [][NextComponents]_vars

---------------------------------------------------------------------------
(* Specification of detectComplexity: an endpoint map of up to MaxKeys     *)
(* keys, each touched by 1 to MaxConnections way ends, and a way count on  *)
(* either side of the threshold.                                           *)

MaxKeys == 3
MaxConnections == 5

WayCounts ==
    {0, 1, WAY_COUNT_THRESHOLD - 1, WAY_COUNT_THRESHOLD, WAY_COUNT_THRESHOLD + 1,
     WAY_COUNT_THRESHOLD + 200}

\* The endpoint map whose i-th key holds counts[i] connections.
EndpointMapOf(counts) ==
    LET key(i) == coordinateToKey(<<i * Deg, 0>>)
    IN  [keys |-> [i \in 1..Len(counts) |-> key(i)],
         val |-> [k \in {key(i) : i \in 1..Len(counts)} |->
                     LET i == CHOOSE j \in 1..Len(counts) : key(j) = k
                     IN  [c \in 1..counts[i] |->
                             [wayId |-> 10 * i + c,
                              position |-> IF c % 2 = 1 THEN "start" ELSE "end"]]]]

InitComplexity ==
    /\ pc = "ready"
    /\ locals = NoLocals /\ NoPage
    /\ \E n \in 0..MaxKeys : \E counts \in [1..n -> 1..MaxConnections] : \E wayCount \in WayCounts :
          args = [endpointMap |-> EndpointMapOf(counts), wayCount |-> wayCount]
    /\ ret = NoReturn

CallDetectComplexity ==
    /\ pc = "ready"
    /\ UNCHANGED <<locals, page>>
    /\ ret' = detectComplexity(args.endpointMap, args.wayCount)
    /\ pc' = "done"
    /\ UNCHANGED args

NextComplexity == CallDetectComplexity

SpecComplexity == InitComplexity /\ [][NextComplexity]_vars

---------------------------------------------------------------------------
(* Specification of parseElements.  An input is either a list of up to     *)
(* MaxElements elements drawn from a catalogue of the shapes the code      *)
(* tells apart, under each form of the options, or a list of up to         *)
(* MaxSpokes untagged two-point ways that start at one hub, followed by       *)
(* enough further ways to bring the batch to the way count of the          *)
(* complexity guard, with grouping on or off.                              *)

MaxElements == 3
MaxSpokes == 4

Point(p) == [lat |-> p[2], lon |-> p[1]]
Points(ps) == [i \in 1..Len(ps) |-> Point(ps[i])]

Node(id) ==
    [type |-> "node", id |-> id, tags |-> {}, geometry |-> <<>>, members |-> <<>>]
Way(id, tags, geometry) ==
    [type |-> "way", id |-> id, tags |-> tags, geometry |-> geometry, members |-> <<>>]
Relation(id, tags, members) ==
    [type |-> "relation", id |-> id, tags |-> tags, geometry |-> <<>>, members |-> members]
Member(type, role, geometry) == [type |-> type, role |-> role, geometry |-> geometry]

Shapes == {"node", "wayAB", "wayBC", "wayDB", "closedArea", "closedLine", "noGeometry",
           "noLon", "nullPoint", "route", "multipolygon", "openOuter", "site"}

\* wayAB, wayBC and wayDB meet at the key of PB (wayDB ends off the grid);
\* wayAB passes through PD, which lies outside the box of its ends.
ElementOf(shape, id) ==
    CASE shape = "node" -> Node(id)
      [] shape = "wayAB" -> Way(id, {<<"name", "x">>, <<"ref", "r1">>}, Points(<<PA, PD, PB>>))
      [] shape = "wayBC" -> Way(id, {<<"name", "x">>, <<"ref", "r2">>}, Points(<<PB, PC>>))
      [] shape = "wayDB" -> Way(id, {<<"name", "y">>, <<"ref", "r1">>}, Points(<<PD, OffGrid(PB)>>))
      [] shape = "closedArea" -> Way(id, {<<"building", "church">>}, Points(<<PA, PM, PB, PA>>))
      [] shape = "closedLine" -> Way(id, {}, Points(<<PA, PM, PB, PA>>))
      [] shape = "noGeometry" -> Way(id, {<<"name", "x">>}, <<>>)
      [] shape = "noLon" -> Way(id, {<<"name", "y">>},
                                <<Point(PC), [lat |-> 3 * Deg, lon |-> undefined]>>)
      [] shape = "nullPoint" -> Way(id, {}, <<null, Point(PA)>>)
      [] shape = "route" -> Relation(id, {<<"type", "route">>},
                                <<Member("way", "", Points(<<PA, PB>>)),
                                  Member("node", "stop", <<>>),
                                  Member("way", "", Points(<<PC, PD>>))>>)
      [] shape = "multipolygon" -> Relation(id, {<<"type", "multipolygon">>},
                                <<Member("way", "outer", Points(<<PA, PD, PC>>)),
                                  Member("way", "outer", Points(<<PA, PC>>)),
                                  Member("way", "inner", Points(<<PM, PB, PD, PM>>))>>)
      [] shape = "openOuter" -> Relation(id, {<<"type", "multipolygon">>},
                                <<Member("way", "outer", Points(<<PA, PB>>))>>)
      [] shape = "site" -> Relation(id, {<<"type", "site">>}, <<>>)

\* The options objects: none, grouping by the default tag, grouping by ref,
\* and a tag without groupByEnabled.
OptionsForms ==
    {[groupByEnabled |-> FALSE, groupByTag |-> ""],
     [groupByEnabled |-> TRUE, groupByTag |-> ""],
     [groupByEnabled |-> TRUE, groupByTag |-> "ref"],
     [groupByEnabled |-> FALSE, groupByTag |-> "name"]}

Hub == PB
Spoke(i) == Way(ElementId(i), {}, Points(<<Hub, <<i * Deg, 3 * Deg>>>>))
BulkCounts == {WAY_COUNT_THRESHOLD - 5, WAY_COUNT_THRESHOLD - 4, WAY_COUNT_THRESHOLD - 3}

Init ==
    /\ pc = "ready"
    /\ locals = NoLocals /\ NoPage
    /\ \/ \E n \in 0..MaxElements : \E shapes \in [1..n -> Shapes] : \E options \in OptionsForms :
             args = [elements |-> [i \in 1..n |-> ElementOf(shapes[i], ElementId(i))],
                     bulk |-> 0,
                     options |-> options]
       \/ \E n \in 0..MaxSpokes : \E bulk \in BulkCounts : \E enabled \in BOOLEAN :
             args = [elements |-> [i \in 1..n |-> Spoke(i)],
                     bulk |-> bulk,
                     options |-> [groupByEnabled |-> enabled, groupByTag |-> ""]]
    /\ ret = NoReturn

CallParseElements ==
    /\ pc = "ready"
    /\ UNCHANGED <<locals, page>>
    /\ ret' = parseElements(args.elements, args.bulk, args.options)
    /\ pc' = "done"
    /\ UNCHANGED args

Next == CallParseElements

Spec == Init /\ [][Next]_vars

---------------------------------------------------------------------------
(* Specification of parseElements on one relation: the members are drawn   *)
(* from a catalogue of way and node members of the roles outer, inner and  *)
(* none, with a closed, an open or no geometry; the relation's type tag is *)
(* multipolygon, route, another value or missing.  Other elements may      *)
(* stand before and after the relation.                                    *)
MaxMembers == 3

MemberKinds == {"outerHalf", "outerOtherHalf", "outerRing", "innerRing", "innerOpen",
                "outerNoGeometry", "outerNode", "unroled"}

\* outerHalf and outerOtherHalf close one ring when the second is reversed;
\* outerRing and innerRing are closed on their own.
MemberOf(kind) ==
    CASE kind = "outerHalf" -> Member("way", "outer", Points(<<PA, PD, PC>>))
      [] kind = "outerOtherHalf" -> Member("way", "outer", Points(<<PA, PC>>))
      [] kind = "outerRing" -> Member("way", "outer", Points(<<PM, PB, PD, PM>>))
      [] kind = "innerRing" -> Member("way", "inner", Points(<<PA, PM, PB, PA>>))
      [] kind = "innerOpen" -> Member("way", "inner", Points(<<PA, PB>>))
      [] kind = "outerNoGeometry" -> Member("way", "outer", <<>>)
      [] kind = "outerNode" -> Member("node", "outer", <<>>)
      [] kind = "unroled" -> Member("way", "", Points(<<PB, PC>>))

RelationTags == {{<<"type", "multipolygon">>, <<"name", "x">>}, {<<"type", "route">>},
                 {<<"type", "site">>}, {<<"name", "x">>}, {}}

\* What stands around the relation in the elements array: nothing, a node
\* before it, a node after it, or a way without geometry before it and a
\* closed building way after it.
Companions == {"alone", "afterNode", "beforeNode", "between"}

RelationId == ElementId(8)

Before(companion) ==
    CASE companion = "afterNode" -> <<ElementOf("node", RelationId - 1)>>
      [] companion = "between" -> <<ElementOf("noGeometry", RelationId - 1)>>
      [] OTHER -> <<>>

After(companion) ==
    CASE companion = "beforeNode" -> <<ElementOf("node", RelationId + 1)>>
      [] companion = "between" -> <<ElementOf("closedArea", RelationId + 1)>>
      [] OTHER -> <<>>

InitRelation ==
    /\ pc = "ready"
    /\ locals = NoLocals /\ NoPage
    /\ \E n \in 0..MaxMembers : \E kinds \in [1..n -> MemberKinds] :
       \E tags \in RelationTags : \E companion \in Companions :
          args = [elements |-> Before(companion)
                               \o <<Relation(RelationId, tags, [i \in 1..n |-> MemberOf(kinds[i])])>>
                               \o After(companion),
                  bulk |-> 0,
                  options |-> [groupByEnabled |-> FALSE, groupByTag |-> ""]]
    /\ ret = NoReturn

NextRelation == CallParseElements

SpecRelation == InitRelation /\ [][NextRelation]_vars

---------------------------------------------------------------------------
(* Specification of parseElements on open ways only: up to MaxOpenWays     *)
(* ways of a catalogue of ways between four junctions, among them a closed *)
(* way without area tags and a way named differently, with grouping by     *)
(* name off and on.                                                        *)
MaxOpenWays == 4

OpenWayKinds == {"AB", "BC", "BD", "DB", "loopB", "CA", "CB"}

OpenWayOf(kind, id) ==
    CASE kind = "AB" -> Way(id, {<<"name", "x">>}, Points(<<PA, PB>>))
      [] kind = "BC" -> Way(id, {<<"name", "x">>}, Points(<<PB, PC>>))
      [] kind = "BD" -> Way(id, {<<"name", "y">>}, Points(<<PB, PD>>))
      [] kind = "DB" -> Way(id, {<<"name", "x">>}, Points(<<PD, PM, PB>>))
      [] kind = "loopB" -> Way(id, {}, Points(<<PB, PM, PA, PB>>))
      [] kind = "CA" -> Way(id, {<<"name", "x">>}, Points(<<PC, OffGrid(PA)>>))
      [] kind = "CB" -> Way(id, {<<"name", "">>}, Points(<<PC, PB>>))

InitBatch ==
    /\ pc = "ready"
    /\ locals = NoLocals /\ NoPage
    /\ \E n \in 0..MaxOpenWays : \E kinds \in [1..n -> OpenWayKinds] : \E enabled \in BOOLEAN :
          args = [elements |-> [i \in 1..n |-> OpenWayOf(kinds[i], ElementId(i))],
                  bulk |-> 0,
                  options |-> [groupByEnabled |-> enabled, groupByTag |-> ""]]
    /\ ret = NoReturn

NextBatch == CallParseElements

SpecBatch == InitBatch /\ [][NextBatch]_vars

---------------------------------------------------------------------------
(* Specification of isClosed: the geometry is any sequence of up to        *)
(* MaxPoints points of a set that holds points of equal lat and different  *)
(* lon, and points that differ from PA in the eighth decimal of one        *)
(* coordinate only.                                                        *)
MaxPoints == 4

ClosurePoints == {Point(PA), Point(<<2, 0>>), Point(<<0, 1>>), Point(PD), Point(PB)}

InitClosed ==
    /\ pc = "ready"
    /\ locals = NoLocals /\ NoPage
    /\ \E geometry \in SeqsUpTo(ClosurePoints, MaxPoints) : args = [geometry |-> geometry]
    /\ ret = NoReturn

CallIsClosed ==
    /\ pc = "ready"
    /\ UNCHANGED <<locals, page>>
    /\ ret' = Return(isClosed(args.geometry))
    /\ pc' = "done"
    /\ UNCHANGED args

NextClosed == CallIsClosed

SpecClosed == InitClosed /\ [][NextClosed]_vars

---------------------------------------------------------------------------
(* Specification of isArea: the tags object holds, for each key of a       *)
(* catalogue, no value or one of the key's values; the empty string is a   *)
(* value.                                                                  *)
Absent == "(absent)"

TagCatalogue ==
    [area |-> {"yes", "no", "maybe"},
     building |-> {"yes", "no", ""},
     place |-> {"square"},
     highway |-> {"residential", "services", ""},
     railway |-> {"platform", "rail"},
     aeroway |-> {"aerodrome", "runway"},
     leisure |-> {"park", "slipway", ""},
     natural |-> {"water", "tree_row"},
     name |-> {"x"}]

ValuesOf(key) == TagCatalogue[key] \cup {Absent}

TagsOf(choice) == {<<key, choice[key]>> : key \in {k \in DOMAIN choice : choice[k] # Absent}}

InitArea ==
    /\ pc = "ready"
    /\ locals = NoLocals /\ NoPage
    /\ \E choice \in [area : ValuesOf("area"), building : ValuesOf("building"),
                       place : ValuesOf("place"), highway : ValuesOf("highway"),
                       railway : ValuesOf("railway"), aeroway : ValuesOf("aeroway"),
                       leisure : ValuesOf("leisure"), natural : ValuesOf("natural"),
                       name : ValuesOf("name")] :
          args = [tags |-> TagsOf(choice)]
    /\ ret = NoReturn

CallIsArea ==
    /\ pc = "ready"
    /\ UNCHANGED <<locals, page>>
    /\ ret' = Return(isArea(args.tags))
    /\ pc' = "done"
    /\ UNCHANGED args

NextArea == CallIsArea

SpecArea == InitArea /\ [][NextArea]_vars

---------------------------------------------------------------------------
(* Specification of generateComponentId: two arrays of up to MaxIds       *)
(* distinct way ids, in any order; the ids have one to three digits.       *)
MaxIds == 3

SomeWayIds == {1, 2, 11, 12, 112}

IdArrays == {ids \in SeqsUpTo(SomeWayIds, MaxIds) : Cardinality(Range(ids)) = Len(ids) /\ ids # <<>>}

InitComponentId ==
    /\ pc = "ready"
    /\ locals = NoLocals /\ NoPage
    /\ \E wayIds \in IdArrays : \E otherIds \in IdArrays :
          args = [wayIds |-> wayIds, otherIds |-> otherIds]
    /\ ret = NoReturn

CallGenerateComponentId ==
    /\ pc = "ready"
    /\ UNCHANGED <<locals, page>>
    /\ ret' = Return([id |-> generateComponentId(args.wayIds),
                      otherId |-> generateComponentId(args.otherIds)])
    /\ pc' = "done"
    /\ UNCHANGED args

NextComponentId == CallGenerateComponentId

SpecComponentId == InitComponentId /\ [][NextComponentId]_vars

---------------------------------------------------------------------------
(* Specification of two successive calls of parseElements with the same    *)
(* elements array and options.  The caller's objects are the elements, and *)
(* with them their tags, geometry and members; args holds them as the      *)
(* calls leave them.  geometryParser.js has no variable outside its        *)
(* functions, so a call computes from its arguments only.                  *)
MaxRepeatElements == 3
RepeatKinds == {"AB", "BC", "DB", "loopB", "CA", "closedArea", "multipolygon"}

RepeatElementOf(kind, id) ==
    IF kind \in OpenWayKinds THEN OpenWayOf(kind, id) ELSE ElementOf(kind, id)

\* The way objects of openWays as a call leaves them: the objects of lines
\* 840-844 after the assignments of line 421.
OpenWaysLeftBy(st, bulk, options) ==
    IF st.threw = "" /\ Len(st.openWays) + bulk > 0
    THEN coalesceOpenWays(st.openWays, bulk, GroupingOptions(options)).openWays
    ELSE st.openWays

\* Mutant: the way object holds the element's own geometry array, and the
\* orientation is made in it.
ElementLeftSharing(element, openWays) ==
    IF \E k \in 1..Len(openWays) : openWays[k].id = element.id
    THEN LET way == openWays[CHOOSE k \in 1..Len(openWays) : openWays[k].id = element.id]
         IN  [element EXCEPT !.tags = way.tags, !.geometry = Points(way.coordinates)]
    ELSE element

\* An element of the input after the call.  The way object that line 840
\* makes of it refers to the element's tags (line 842) and to the array
\* that line 819 made, which is not the element's geometry: an assignment
\* to the way's tags would be one to the element's, the assignment of line
\* 421 to the way's coordinates is not.  Polygons and relation geometries
\* are built from arrays of their own (lines 748-750, 819).
ElementLeftBy(element, openWays) ==
    IF \E k \in 1..Len(openWays) : openWays[k].id = element.id
    THEN LET way == openWays[CHOOSE k \in 1..Len(openWays) : openWays[k].id = element.id]
         IN  [element EXCEPT !.tags = way.tags]
    ELSE element

InputLeftBy(elements, openWays) ==
    [i \in 1..Len(elements) |-> ElementLeftBy(elements[i], openWays)]

InitRepeat ==
    /\ pc = "ready"
    /\ locals = NoLocals /\ NoPage
    /\ \E n \in 0..MaxRepeatElements : \E kinds \in [1..n -> RepeatKinds] : \E enabled \in BOOLEAN :
          args = [elements |-> [i \in 1..n |-> RepeatElementOf(kinds[i], ElementId(i))],
                  bulk |-> 0,
                  options |-> [groupByEnabled |-> enabled, groupByTag |-> ""]]
    /\ ret = NoReturn

CallParseElementsFirst ==
    /\ pc = "ready"
    /\ UNCHANGED <<locals, page>>
    /\ ret' = parseElements(args.elements, args.bulk, args.options)
    /\ args' = [args EXCEPT !.elements =
                    InputLeftBy(args.elements,
                                OpenWaysLeftBy(ParseLoop(args.elements, Parsed(<<>>, <<>>, <<>>, "")),
                                               args.bulk, args.options))]
    /\ pc' = "once"

CallParseElementsAgain ==
    /\ pc = "once"
    /\ UNCHANGED <<locals, page>>
    /\ ret' = parseElements(args.elements, args.bulk, args.options)
    /\ args' = [args EXCEPT !.elements =
                    InputLeftBy(args.elements,
                                OpenWaysLeftBy(ParseLoop(args.elements, Parsed(<<>>, <<>>, <<>>, "")),
                                               args.bulk, args.options))]
    /\ pc' = "done"

NextRepeat == CallParseElementsFirst \/ CallParseElementsAgain

SpecRepeat == InitRepeat /\ [][NextRepeat]_vars

---------------------------------------------------------------------------
(* The lazily loaded grid of the page, main.js 941-1036, 1095-1127,        *)
(* 1140-1240, 1467-1550 and gridLayout.js 370-430.  A geometry list is a   *)
(* record [list, length]: list tells one array from another (every sort    *)
(* and every result makes a new array), and the item of index i made from  *)
(* it is the pair of the list and i.  The grid holds runs of items         *)
(* [list, from, to): the items from .. to - 1 of one list in sequence.     *)
(* pc is "idle", or "awaiting" while handleSubmit waits for executeQuery.  *)
(* The scroll listener's own 100 ms timer only delays handleScroll and is  *)
(* left to the choice of when Scroll happens.                              *)
batchSize == 50
initialBatch == 50
lazyLoadThreshold == 100

MaxLists == 3
ResultLengths == {0, 30, 120, 160}

\* Lines 1030-1036; isLoading is not among the fields it resets.
cleanupLazyLoading(state) ==
    [state EXCEPT !.enabled = FALSE, !.renderedCount = 0, !.totalCount = 0]

Min(a, b) == IF a < b THEN a ELSE b

\* gridLayout.js 370-382: the items of geometries.slice(startIndex,
\* endIndex) are appended to the container.
renderBatch(container, geometries, startIndex, endIndex) ==
    LET to == Min(endIndex, geometries.length)
    IN  IF startIndex >= to
        THEN container
        ELSE IF container # <<>>
                /\ Last(container).list = geometries.list
                /\ Last(container).to = startIndex
        THEN [container EXCEPT ![Len(container)].to = to]
        ELSE Append(container, [list |-> geometries.list, from |-> startIndex, to |-> to])

\* gridLayout.js 393-430: the container is emptied and filled again.
createGrid(geometries) ==
    IF geometries.length = 0
    THEN [container |-> <<>>, isLazyLoaded |-> FALSE, renderedCount |-> 0, totalCount |-> 0]
    ELSE IF geometries.length < lazyLoadThreshold
    THEN [container |-> renderBatch(<<>>, geometries, 0, geometries.length),
          isLazyLoaded |-> FALSE,
          renderedCount |-> geometries.length,
          totalCount |-> geometries.length]
    ELSE [container |-> renderBatch(<<>>, geometries, 0, Min(initialBatch, geometries.length)),
          isLazyLoaded |-> TRUE,
          renderedCount |-> Min(initialBatch, geometries.length),
          totalCount |-> geometries.length]

\* Lines 1114-1116, 1214-1216, 1539-1541.
UpdateLazyLoadState(state, gridResult) ==
    [state EXCEPT !.enabled = gridResult.isLazyLoaded,
                  !.renderedCount = gridResult.renderedCount,
                  !.totalCount = gridResult.totalCount]

InitGrid ==
    /\ pc = "idle"
    /\ args = <<>>
    /\ ret = NoReturn
    /\ locals = NoLocals
    /\ currentGeometries = [list |-> 0, length |-> 0]
    /\ lazyLoadState = [enabled |-> FALSE, renderedCount |-> 0, totalCount |-> 0,
                        isLoading |-> FALSE]
    /\ gridContainer = <<>>
    /\ timers = <<>>

\* handleScroll near the bottom of the page, lines 985-1011, and
\* loadMoreItems, lines 941-960 and 980: the batch range is fixed and the
\* callback handed to setTimeout.
Scroll ==
    /\ lazyLoadState.enabled
    /\ ~lazyLoadState.isLoading
    /\ lazyLoadState.renderedCount < lazyLoadState.totalCount
    /\ lazyLoadState' = [lazyLoadState EXCEPT !.isLoading = TRUE]
    /\ timers' = Append(timers,
                        [startIndex |-> lazyLoadState.renderedCount,
                         endIndex |-> Min(lazyLoadState.renderedCount + batchSize,
                                          lazyLoadState.totalCount)])
    /\ UNCHANGED <<pc, args, ret, locals, currentGeometries, gridContainer>>

\* The callback of lines 961-979, run with the startIndex and endIndex of
\* its closure and the currentGeometries of the moment.
LoadTimerFires ==
    /\ timers # <<>>
    /\ gridContainer' = renderBatch(gridContainer, currentGeometries,
                                    Head(timers).startIndex, Head(timers).endIndex)
    /\ lazyLoadState' = [lazyLoadState EXCEPT !.renderedCount = Head(timers).endIndex,
                                              !.isLoading = FALSE]
    /\ timers' = Tail(timers)
    /\ UNCHANGED <<pc, args, ret, locals, currentGeometries>>

\* applySorting, lines 1095-1127.
ApplySorting ==
    /\ currentGeometries.length # 0
    /\ currentGeometries.list < MaxLists
    /\ currentGeometries' = [currentGeometries EXCEPT !.list = @ + 1]
    /\ gridContainer' = createGrid(currentGeometries').container
    /\ lazyLoadState' = UpdateLazyLoadState(cleanupLazyLoading(lazyLoadState),
                                            createGrid(currentGeometries'))
    /\ UNCHANGED <<pc, args, ret, locals, timers>>

\* handleSubmit up to its await, lines 1140-1156.
HandleSubmit ==
    /\ pc = "idle"
    /\ pc' = "awaiting"
    /\ lazyLoadState' = cleanupLazyLoading(lazyLoadState)
    /\ UNCHANGED <<args, ret, locals, currentGeometries, gridContainer, timers>>

\* handleSubmit after its await, lines 1157-1240, the query having given
\* length geometries: none empties the grid and changes nothing else.
QueryResult(length) ==
    /\ pc = "awaiting"
    /\ pc' = "idle"
    /\ IF length = 0
       THEN /\ gridContainer' = <<>>
            /\ UNCHANGED <<currentGeometries, lazyLoadState>>
       ELSE /\ currentGeometries.list < MaxLists
            /\ currentGeometries' = [list |-> currentGeometries.list + 1, length |-> length]
            /\ gridContainer' = createGrid(currentGeometries').container
            /\ lazyLoadState' = UpdateLazyLoadState(lazyLoadState, createGrid(currentGeometries'))
    /\ UNCHANGED <<args, ret, locals, timers>>

\* handleSubmit after its await when executeQuery or parseElements threw,
\* lines 1231-1241.
QueryFails ==
    /\ pc = "awaiting"
    /\ pc' = "idle"
    /\ UNCHANGED <<args, ret, locals, page>>

\* handleImportSubmit, lines 1467-1550, on a file that gave length
\* geometries (with none it returns at line 1497); it does not call
\* cleanupLazyLoading.
ImportResult(length) ==
    /\ length # 0
    /\ currentGeometries.list < MaxLists
    /\ currentGeometries' = [list |-> currentGeometries.list + 1, length |-> length]
    /\ gridContainer' = createGrid(currentGeometries').container
    /\ lazyLoadState' = UpdateLazyLoadState(lazyLoadState, createGrid(currentGeometries'))
    /\ UNCHANGED <<pc, args, ret, locals, timers>>

NextGrid ==
    \/ Scroll
    \/ LoadTimerFires
    \/ ApplySorting
    \/ HandleSubmit
    \/ \E length \in ResultLengths : QueryResult(length)
    \/ QueryFails
    \/ \E length \in ResultLengths : ImportResult(length)

SpecGrid == InitGrid /\ [][NextGrid]_vars

---------------------------------------------------------------------------
(* The three loops of geometryParser.js step by step: the ring merging of  *)
(* mergeWaysIntoRings (lines 164-227), the traversal of                    *)
(* findConnectedComponents (lines 321-357) and the walk of                 *)
(* orderComponentIntoPath (lines 432-464).  pc names the function that is  *)
(* running, locals holds its local variables and `at`, the loop about to   *)
(* test its condition; one step is one pass through the body of a loop.    *)
(* The walk is taken up at the first test of its loop.                     *)
(* A call that has started carries on to its next statement, so the        *)
(* specification is weakly fair to its steps.  current = null is the empty *)
(* sequence here.                                                          *)
MaxLoopWays == 4
LoopChains == {<<PA, PB>>, <<PB, PM, PC>>, <<PC, PA>>, <<PC, PB>>, <<PA, PM, PA>>}
LoopWayKinds == {"AB", "BC", "BD", "DB", "loopB"}

LoopWays(kinds) ==
    [i \in 1..Len(kinds) |->
        [id |-> ElementId(i),
         coordinates |-> ToCoordinates(OpenWayOf(kinds[i], ElementId(i)).geometry)]]

\* Lines 407-425: the start way, t being the place in the component of the
\* first way with a terminal (0 if none), and the way map after the
\* assignment of line 421.
StartAt(componentWayIds, wayMap, terminalNodes, t) ==
    [currentWayId |-> componentWayIds[IF t = 0 THEN 1 ELSE t],
     wayMap |-> IF /\ t # 0
                   /\ LastNode(wayMap[componentWayIds[t]]) \in terminalNodes
                   /\ FirstNode(wayMap[componentWayIds[t]]) \notin terminalNodes
                THEN [wayMap EXCEPT ![componentWayIds[t]].coordinates = Reverse(@)]
                ELSE wayMap]

StartFrom(componentWayIds, wayMap, terminalNodes) ==
    StartAt(componentWayIds, wayMap, terminalNodes,
            FirstTerminalWay(componentWayIds, wayMap, terminalNodes))

StartOfWalk(componentWayIds, wayMap) ==
    StartFrom(componentWayIds, wayMap, TerminalNodes(NodeDegree(componentWayIds, wayMap)))

\* Lines 428-429: the local variables at the first test of the while loop.
WalkLocals(start) ==
    [at |-> "walk",
     wayMap |-> start.wayMap,
     used |-> {start.currentWayId},
     orderedCoords |-> start.wayMap[start.currentWayId].coordinates,
     found |-> TRUE]

\* The walk starts at the first test of its while loop: the component has
\* two ways or more and is not branching (lines 370-402).
InitLoops ==
    /\ NoPage
    /\ ret = NoReturn
    /\ \/ /\ pc = "mergeWaysIntoRings"
          /\ locals = NoLocals
          /\ args \in {[ways |-> w] : w \in SeqsUpTo(LoopChains, MaxLoopWays)}
       \/ /\ pc = "findConnectedComponents"
          /\ locals = NoLocals
          /\ \E n \in 0..MaxLoopWays : \E kinds \in [1..n -> LoopWayKinds] :
                args = [ways |-> LoopWays(kinds),
                        endpointMap |-> buildEndpointMap(LoopWays(kinds))]
       \/ /\ pc = "orderComponentIntoPath"
          /\ \E n \in 0..MaxLoopWays : \E kinds \in [1..n -> LoopWayKinds] :
                \E component \in Range(findConnectedComponents(LoopWays(kinds),
                                                               buildEndpointMap(LoopWays(kinds)))) :
                   /\ Len(component) >= 2
                   /\ ~IsBranching(NodeDegree(component, WayMapOf(LoopWays(kinds))))
                   /\ args = [componentWayIds |-> component,
                              wayMap |-> WayMapOf(LoopWays(kinds)),
                              endpointMap |-> buildEndpointMap(LoopWays(kinds))]
                   /\ locals = WalkLocals(StartOfWalk(component, WayMapOf(LoopWays(kinds))))

\* return value: the call is over.
Finish(value) ==
    /\ pc' = "done"
    /\ ret' = Return(value)
    /\ UNCHANGED <<locals, args, page>>

\* The function goes on with the local variables l.
GoOn(l) ==
    /\ locals' = l
    /\ UNCHANGED <<pc, args, ret, page>>

\* Lines 147-162 of mergeWaysIntoRings.
RingsEnter ==
    /\ pc = "mergeWaysIntoRings" /\ locals = NoLocals
    /\ IF Len(args.ways) = 0
       THEN Finish(<<>>)
       ELSE IF Len(args.ways) = 1
       THEN Finish(IF coordsEqual(args.ways[1][1], Last(args.ways[1]))
                   THEN <<args.ways[1]>> ELSE <<>>)
       ELSE GoOn([at |-> "outer", remaining |-> args.ways, rings |-> <<>>,
                  current |-> <<>>, merged |-> FALSE])

\* Lines 164-167: the test of the outer while and the shift; line 229.
RingsOuter ==
    /\ pc = "mergeWaysIntoRings" /\ locals # NoLocals /\ locals.at = "outer"
    /\ IF locals.remaining = <<>>
       THEN Finish(locals.rings)
       ELSE GoOn([locals EXCEPT !.at = "inner", !.current = Head(locals.remaining),
                                !.remaining = Tail(locals.remaining), !.merged = TRUE])

\* One pass of the inner while, lines 170-215, on the local variables l.
RingsInnerPass(l) ==
    IF ~(l.merged /\ l.remaining # <<>>)
    THEN [l EXCEPT !.at = "after"]
    ELSE IF coordsEqual(l.current[1], Last(l.current))
    THEN [l EXCEPT !.at = "after", !.merged = FALSE,
                   !.rings = Append(l.rings, l.current), !.current = <<>>]
    ELSE IF FirstConnecting(l.current, l.remaining) = 0
    THEN [l EXCEPT !.merged = FALSE]
    ELSE [l EXCEPT !.merged = TRUE,
                   !.current = Splice(l.current,
                                      l.remaining[FirstConnecting(l.current, l.remaining)]),
                   !.remaining = RemoveAt(l.remaining,
                                          FirstConnecting(l.current, l.remaining))]

RingsInner ==
    /\ pc = "mergeWaysIntoRings" /\ locals # NoLocals /\ locals.at = "inner"
    /\ GoOn(RingsInnerPass(locals))

\* Lines 217-226: after the inner while.
RingsAfter ==
    /\ pc = "mergeWaysIntoRings" /\ locals # NoLocals /\ locals.at = "after"
    /\ IF locals.current = <<>>
       THEN GoOn([locals EXCEPT !.at = "outer"])
       ELSE IF coordsEqual(locals.current[1], Last(locals.current))
       THEN GoOn([locals EXCEPT !.at = "outer", !.rings = Append(locals.rings, locals.current)])
       ELSE Finish(<<>>)

\* Lines 317-319 of findConnectedComponents.
ComponentsEnter ==
    /\ pc = "findConnectedComponents" /\ locals = NoLocals
    /\ GoOn([at |-> "forEach", i |-> 1, visited |-> {}, components |-> <<>>,
             queue |-> <<>>, component |-> <<>>])

\* One callback of ways.forEach up to its while loop, lines 321-328; line 359.
ComponentsForEach ==
    /\ pc = "findConnectedComponents" /\ locals # NoLocals /\ locals.at = "forEach"
    /\ IF locals.i > Len(args.ways)
       THEN Finish(locals.components)
       ELSE IF args.ways[locals.i].id \in locals.visited
       THEN GoOn([locals EXCEPT !.i = @ + 1])
       ELSE GoOn([locals EXCEPT !.at = "while", !.component = <<>>,
                                !.queue = <<args.ways[locals.i].id>>])

\* Mutant: a way that was visited is left in the queue.
TraversalPassNoShift(l, wayMap, endpointMap) ==
    IF l.queue = <<>>
    THEN [l EXCEPT !.at = "forEach", !.i = @ + 1,
                   !.components = Append(l.components, l.component)]
    ELSE IF Head(l.queue) \in l.visited
    THEN l
    ELSE [l EXCEPT !.visited = @ \cup {Head(l.queue)},
                   !.component = Append(@, Head(l.queue)),
                   !.queue = Tail(@)
                       \o Unvisited(Connections(endpointMap, FirstNode(wayMap[Head(l.queue)])),
                                    l.visited \cup {Head(l.queue)})
                       \o Unvisited(Connections(endpointMap, LastNode(wayMap[Head(l.queue)])),
                                    l.visited \cup {Head(l.queue)})]

\* One pass of the while loop of lines 330-354, or line 356 when the queue
\* is empty.
TraversalPass(l, wayMap, endpointMap) ==
    IF l.queue = <<>>
    THEN [l EXCEPT !.at = "forEach", !.i = @ + 1,
                   !.components = Append(l.components, l.component)]
    ELSE IF Head(l.queue) \in l.visited
    THEN [l EXCEPT !.queue = Tail(@)]
    ELSE [l EXCEPT !.visited = @ \cup {Head(l.queue)},
                   !.component = Append(@, Head(l.queue)),
                   !.queue = Tail(@)
                       \o Unvisited(Connections(endpointMap, FirstNode(wayMap[Head(l.queue)])),
                                    l.visited \cup {Head(l.queue)})
                       \o Unvisited(Connections(endpointMap, LastNode(wayMap[Head(l.queue)])),
                                    l.visited \cup {Head(l.queue)})]

ComponentsWhile ==
    /\ pc = "findConnectedComponents" /\ locals # NoLocals /\ locals.at = "while"
    /\ GoOn(TraversalPass(locals, WayMapOf(args.ways), args.endpointMap))

\* One pass of the while loop of lines 432-464, i being the place of the
\* first connection at the current end node to an unused way of the
\* component (0 if none); found = false is the break of line 463.
WalkPass(l, connections, i) ==
    IF i = 0
    THEN [l EXCEPT !.found = FALSE]
    ELSE [l EXCEPT
             !.orderedCoords = Extend(@, l.wayMap[connections[i].wayId],
                                      coordinateToKey(Last(l.orderedCoords))),
             !.used = @ \cup {connections[i].wayId}]

WalkFrom(l, connections, componentWayIds) ==
    WalkPass(l, connections, NextConnection(connections, l.used, componentWayIds))

\* The test of the while loop, one pass, and line 466.
WalkStep ==
    /\ pc = "orderComponentIntoPath" /\ locals # NoLocals /\ locals.at = "walk"
    /\ IF ~locals.found \/ Cardinality(locals.used) >= Len(args.componentWayIds)
       THEN Finish(<<locals.orderedCoords>>)
       ELSE GoOn(WalkFrom(locals,
                          Connections(args.endpointMap, coordinateToKey(Last(locals.orderedCoords))),
                          args.componentWayIds))

NextLoops ==
    \/ RingsEnter
    \/ RingsOuter
    \/ RingsInner
    \/ RingsAfter
    \/ ComponentsEnter
    \/ ComponentsForEach
    \/ ComponentsWhile
    \/ WalkStep

SpecLoops == InitLoops /\ [][NextLoops]_vars /\ WF_vars(NextLoops)

---------------------------------------------------------------------------
(* Component partition.                                                    *)

WayIds(ways) == {ways[i].id : i \in 1..Len(ways)}

\* The places (component, index) at which id occurs in the components.
Occurrences(components, id) ==
    {<<c, k>> \in (1..Len(components)) \X (1..Cardinality(DOMAIN Flat(components))) :
        k <= Len(components[c]) /\ components[c][k] = id}

\* C1: for ways with distinct ids and the endpoint map built from them,
\* findConnectedComponents returns a partition of the way ids: every id
\* occurs exactly once in exactly one component, no component is empty and
\* the components together hold exactly the input ids.
C1_ComponentsPartition ==
    pc = "done" =>
        LET components == ret.value.components
        IN  /\ \A id \in WayIds(args.ways) : Cardinality(Occurrences(components, id)) = 1
            /\ \A c \in 1..Len(components) : Len(components[c]) >= 1
            /\ UNION {Range(components[c]) : c \in 1..Len(components)} = WayIds(args.ways)

\* Two ways that share both end keys (the second is enqueued twice) and form one
\* component, beside a third way that is a component of its own.
C1_Witness ==
    /\ pc = "done"
    /\ Len(args.ways) = 3
    /\ {FirstNode(args.ways[1]), LastNode(args.ways[1])}
           = {FirstNode(args.ways[2]), LastNode(args.ways[2])}
    /\ FirstNode(args.ways[1]) # LastNode(args.ways[1])
    /\ Len(ret.value.components) = 2
    /\ Len(ret.value.components[1]) = 2

---------------------------------------------------------------------------
(* Complexity threshold boundary.                                          *)

MaxConnectionCount(endpointMap) ==
    SetMax({0} \cup {Len(MapGet(endpointMap, k)) : k \in DOMAIN endpointMap.val})

\* C3: detectComplexity never raises below 1000 ways (999 included),
\* whatever the connectivity; from 1000 ways on it raises
\* NETWORK_TOO_COMPLEX exactly when some key has more than 3 entries (3
\* entries raise nothing, 4 or more raise), with complexNodeCount >= 1.
C3_ComplexityBoundary ==
    pc = "done" =>
        /\ args.wayCount < 1000 => ret.threw = ""
        /\ args.wayCount >= 1000 =>
              (ret.threw = "NETWORK_TOO_COMPLEX" <=> MaxConnectionCount(args.endpointMap) >= 4)
        /\ ret.threw # "" =>
              /\ ret.threw = "NETWORK_TOO_COMPLEX"
              /\ ret.value.complexNodeCount >= 1
              /\ ret.value.complexNodeCount =
                     Cardinality({k \in DOMAIN args.endpointMap.val :
                                     Len(MapGet(args.endpointMap, k)) >= 4})

\* Exactly 1000 ways, one key with 3 entries and one with 4: the error is
\* raised for the one key.
C3_Witness ==
    /\ pc = "done"
    /\ args.wayCount = 1000
    /\ {Len(MapGet(args.endpointMap, k)) : k \in DOMAIN args.endpointMap.val} = {3, 4}
    /\ ret.threw = "NETWORK_TOO_COMPLEX"
    /\ ret.value.complexNodeCount = 1

---------------------------------------------------------------------------
(* Path ordering of a simple open chain.                                   *)

\* The way ends (two per way) whose key is node, among the ways of ids.
EndsAt(ways, ids, node) ==
    {<<i, e>> \in (1..Len(ways)) \X {"start", "end"} :
        /\ ways[i].id \in ids
        /\ node = (IF e = "start" THEN FirstNode(ways[i]) ELSE LastNode(ways[i]))}

MemberNodes(ways, ids) ==
    UNION {{FirstNode(ways[i]), LastNode(ways[i])} : i \in {j \in 1..Len(ways) : ways[j].id \in ids}}

Terminals(ways, ids) ==
    {node \in MemberNodes(ways, ids) : Cardinality(EndsAt(ways, ids, node)) = 1}

\* Exactly two terminals, every other end node of degree 2.
IsSimpleOpenChain(ways, ids) ==
    /\ Cardinality(ids) >= 2
    /\ Cardinality(Terminals(ways, ids)) = 2
    /\ \A node \in MemberNodes(ways, ids) : Cardinality(EndsAt(ways, ids, node)) \in {1, 2}

\* rest continues a chain that ends at prevEnd by traversing every way of S
\* exactly once, each joined at the key of the vertex before it and entered
\* without repeating that vertex.
RECURSIVE TraversesFrom(_, _, _, _)
TraversesFrom(rest, prevEnd, ways, S) ==
    IF S = {}
    THEN rest = <<>>
    ELSE \E i \in S : \E c \in {ways[i].coordinates, Reverse(ways[i].coordinates)} :
            /\ coordinateToKey(c[1]) = coordinateToKey(prevEnd)
            /\ Len(c) - 1 <= Len(rest)
            /\ SubSeq(rest, 1, Len(c) - 1) = Tail(c)
            /\ TraversesFrom(SubSeq(rest, Len(c), Len(rest)), Last(c), ways, S \ {i})

\* chain traverses every way of S exactly once, end to end.
Traverses(chain, ways, S) ==
    \E i \in S : \E c \in {ways[i].coordinates, Reverse(ways[i].coordinates)} :
        /\ Len(c) <= Len(chain)
        /\ SubSeq(chain, 1, Len(c)) = c
        /\ TraversesFrom(SubSeq(chain, Len(c) + 1, Len(chain)), Last(c), ways, S \ {i})

\* C10: a multi-way component that is a simple open chain, whatever the
\* input order and the orientation of its ways, is ordered into exactly one
\* chain that starts at one terminal, ends at the other and traverses every
\* member way exactly once without repeating a junction vertex; the ways
\* [[0,0],[1,1]] and [[1,1],[2,2]] give [[0,0],[1,1],[2,2]].
C10_SimpleChainOrdered ==
    pc = "done" =>
        LET ways == args.ways
            components == ret.value.components
            paths == ret.value.paths
        IN  /\ \A c \in 1..Len(components) :
                   IsSimpleOpenChain(ways, Range(components[c])) =>
                       /\ Len(paths[c]) = 1
                       /\ {coordinateToKey(paths[c][1][1]), coordinateToKey(Last(paths[c][1]))}
                              = Terminals(ways, Range(components[c]))
                       /\ Traverses(paths[c][1], ways,
                                    {i \in 1..Len(ways) : ways[i].id \in Range(components[c])})
            /\ [i \in 1..Len(ways) |-> ways[i].coordinates] = <<<<PA, PB>>, <<PB, PC>>>>
                   => paths = <<<<<<PA, PB, PC>>>>>>

\* A chain of three ways given with its middle way first and its ways not
\* oriented head to tail, ordered into one chain.
C10_Witness ==
    /\ pc = "done"
    /\ Len(args.ways) = 3
    /\ Len(ret.value.components) = 1
    /\ IsSimpleOpenChain(args.ways, WayIds(args.ways))
    /\ {FirstNode(args.ways[1]), LastNode(args.ways[1])} \cap Terminals(args.ways, WayIds(args.ways)) = {}
    /\ LastNode(args.ways[1]) = LastNode(args.ways[2])
    /\ Len(args.ways[1].coordinates) = 3
    /\ Len(ret.value.paths[1]) = 1

---------------------------------------------------------------------------
(* Ring merge completeness.                                                *)

\* The number of chain ends (a chain has two, also when they coincide) at p.
EndDegree(chains, p) ==
    Cardinality({i \in 1..Len(chains) : coordsEqual(chains[i][1], p)})
        + Cardinality({i \in 1..Len(chains) : coordsEqual(Last(chains[i]), p)})

ChainEnds(chain) == {chain[1], Last(chain)}

\* The chains reachable from those of S by gluing at equal end coordinates.
RECURSIVE GluedTo(_, _)
GluedTo(chains, S) ==
    LET T == S \cup {j \in 1..Len(chains) :
                        \E i \in S : ChainEnds(chains[i]) \cap ChainEnds(chains[j]) # {}}
    IN  IF T = S THEN S ELSE GluedTo(chains, T)

\* Glued at shared end coordinates, the chains are one cycle: every end
\* coordinate joins exactly two chain ends and the whole is connected.
FormsOneRing(chains) ==
    /\ Len(chains) >= 1
    /\ \A i \in 1..Len(chains) : \A p \in ChainEnds(chains[i]) : EndDegree(chains, p) = 2
    /\ GluedTo(chains, {1}) = 1..Len(chains)

\* No gluing can close every chain: some end coordinate joins an odd number of ends.
CannotClose(chains) ==
    \E i \in 1..Len(chains) : \E p \in ChainEnds(chains[i]) : EndDegree(chains, p) % 2 = 1

\* chain lies in ring as a run of consecutive vertices, forward or reversed.
OccursIn(chain, ring) ==
    \E k \in 0..(Len(ring) - Len(chain)) :
        LET run == SubSeq(ring, k + 1, k + Len(chain))
        IN  run = chain \/ run = Reverse(chain)

\* C2: chains that form exactly one topological ring, in any order and
\* orientation, merge into exactly one closed ring that holds every chain
\* whole, each join vertex once (the ring's length is the chains' total
\* minus one per splice); chains that cannot fully close give the empty list.
C2_RingMergeComplete ==
    pc = "done" =>
        LET ways == args.ways
            rings == ret.value
        IN  /\ FormsOneRing(ways) =>
                /\ Len(rings) = 1
                /\ coordsEqual(rings[1][1], Last(rings[1]))
                /\ Len(rings[1]) = SumLen(ways) - (Len(ways) - 1)
                /\ \A i \in 1..Len(ways) : OccursIn(ways[i], rings[1])
                /\ Range(rings[1]) = UNION {Range(ways[i]) : i \in 1..Len(ways)}
            /\ CannotClose(ways) => rings = <<>>

\* Three chains of a triangle, one with an interior vertex, the second given
\* end-to-end with the first (it must be reversed), merged into one ring.
C2_Witness ==
    /\ pc = "done"
    /\ Len(args.ways) = MaxChains
    /\ FormsOneRing(args.ways)
    /\ coordsEqual(Last(args.ways[1]), Last(args.ways[2]))
    /\ \E i \in 1..Len(args.ways) : Len(args.ways[i]) = 3
    /\ Len(ret.value) = 1

---------------------------------------------------------------------------
(* Results of parseElements.                                               *)

Returned == pc = "done" /\ ret.threw = ""

\* The elements that lines 807-845 collect for coalescing: ways with
\* geometry that are not closed area ways.
EntersBatch(e) ==
    /\ e.type = "way"
    /\ Len(e.geometry) > 0
    /\ ~(isClosed(e.geometry) /\ isArea(e.tags))

BatchElements == SelectSeq(args.elements, EntersBatch)
BatchIds == {BatchElements[i].id : i \in 1..Len(BatchElements)}

\* Both ends of every way of the batch are numeric pairs.
EndsAreNumeric ==
    \A i \in 1..Len(BatchElements) :
        LET geometry == BatchElements[i].geometry
        IN  /\ IsNumber(geometry[1].lon) /\ IsNumber(geometry[1].lat)
            /\ IsNumber(Last(geometry).lon) /\ IsNumber(Last(geometry).lat)

IsComponent(g) == g.type = "component"
IsLineStringOfWay(g, id) ==
    g.type = "way" /\ g.geometry.type = "LineString" /\ g.id = id
IsPolygonOfWay(g, id) ==
    g.type = "way" /\ g.geometry.type = "Polygon" /\ g.id = id

\* The endpoint keys of an element's geometry.
EndKeys(e) ==
    {coordinateToKey(<<e.geometry[1].lon, e.geometry[1].lat>>),
     coordinateToKey(<<Last(e.geometry).lon, Last(e.geometry).lat>>)}

\* The greatest number of way ends of the batch at one key.
EndsAtKey(key) ==
    Cardinality({i \in 1..Len(BatchElements) : key \in EndKeys(BatchElements[i])})

---------------------------------------------------------------------------
(* Errors escaping parseElements.                                          *)

\* C4 (as stated): the only error that escapes parseElements is the
\* complexity error, raised by the guard of ungrouped coalescing on a batch
\* of WAY_COUNT_THRESHOLD ways or more; everything else returns a result.
\* Refuted by a way whose geometry holds a null entry.
C4_OnlyComplexityEscapes ==
    pc = "done" /\ ret.threw # "" =>
        /\ ret.threw = "NETWORK_TOO_COMPLEX"
        /\ ~args.options.groupByEnabled
        /\ Len(args.elements) + args.bulk >= WAY_COUNT_THRESHOLD

---------------------------------------------------------------------------
(* The fallback of a failed coalescing.                                    *)

\* The geometries and warnings the per-element loop produced.
BeforeCoalescing == ParseLoop(args.elements, Parsed(<<>>, <<>>, <<>>, ""))

FailedAfter(st) ==
    /\ st.threw = ""
    /\ coalesceOpenWays(st.openWays, args.bulk, GroupingOptions(args.options)).threw
           \notin {"", "NETWORK_TOO_COMPLEX"}

\* Coalescing the batch raised an exception that is not the complexity error.
CoalescingFailed == FailedAfter(BeforeCoalescing)

\* The result (geometries g, warnings w, bulk LineStrings n) of a call that
\* fell back, the loop having produced `before`.
IsFallback(g, w, n, before) ==
    /\ Len(w) = Len(before.warnings) + 1
    /\ SubSeq(w, 1, Len(before.warnings)) = before.warnings
    /\ Last(w).osmType = "way"
    /\ Last(w).osmIds = [i \in 1..Len(BatchElements) |-> BatchElements[i].id]
    /\ Len(g) = Len(before.geometries) + Len(BatchElements)
    /\ SubSeq(g, 1, Len(before.geometries)) = before.geometries
    /\ \A k \in 1..Len(g) : ~IsComponent(g[k])
    /\ \A i \in 1..Len(BatchElements) :
          /\ Cardinality({k \in 1..Len(g) : IsLineStringOfWay(g[k], BatchElements[i].id)}) = 1
          /\ \A k \in 1..Len(g) :
                IsLineStringOfWay(g[k], BatchElements[i].id) =>
                    g[k].geometry.coordinates \in
                        {ToCoordinates(BatchElements[i].geometry),
                         Reverse(ToCoordinates(BatchElements[i].geometry))}
    /\ n = args.bulk

\* C5: when coalescing fails with an exception other than the complexity
\* error, parseElements returns; it adds one warning that lists the ids of
\* the batch, emits every way of the batch exactly once as a LineString of
\* type 'way' with the way's own points, emits no component, and keeps the
\* geometries and warnings produced before.
C5_FallbackOnCoalescingError ==
    pc = "done" /\ CoalescingFailed =>
        /\ ret.threw = ""
        /\ IsFallback(ret.value.geometries, ret.value.warnings, ret.value.bulkGeometries,
                      BeforeCoalescing)

\* A failed coalescing of a batch of two ways or more, after a polygon or
\* relation geometry was produced.
C5_Witness ==
    /\ pc = "done"
    /\ CoalescingFailed
    /\ Len(BatchElements) >= 2
    /\ BeforeCoalescing.geometries # <<>>
    /\ Len(ret.value.geometries) > Len(BatchElements)

---------------------------------------------------------------------------
(* Grouped mode and the complexity guard.                                  *)

\* C6: with grouping enabled parseElements never raises the complexity
\* error, whatever the number of open ways and their connectivity.
C6_GroupedNeverTooComplex ==
    pc = "done" /\ args.options.groupByEnabled => ret.threw # "NETWORK_TOO_COMPLEX"

\* A grouped call that returned on WAY_COUNT_THRESHOLD ways or more with a
\* key touched by more than COMPLEXITY_THRESHOLD way ends.
C6_Witness ==
    /\ Returned
    /\ args.options.groupByEnabled
    /\ Len(BatchElements) + args.bulk >= WAY_COUNT_THRESHOLD
    /\ \E i \in 1..Len(BatchElements) : \E key \in EndKeys(BatchElements[i]) :
          EndsAtKey(key) > COMPLEXITY_THRESHOLD
    /\ Len(ret.value.geometries) + ret.value.bulkGeometries < Len(BatchElements) + args.bulk

---------------------------------------------------------------------------
(* The grouping option.                                                    *)

\* The value of a tag on an element, the empty string if it has none.
ValueOrEmpty(e, tag) ==
    IF \E t \in e.tags : t[1] = tag /\ t[2] # ""
    THEN (CHOOSE t \in e.tags : t[1] = tag)[2]
    ELSE ""

\* Two ways of the batch share an endpoint key.
Touch(a, b) == EndKeys(a) \cap EndKeys(b) # {}

\* Two ways are members of one component of the result.
Together(a, b) ==
    \E k \in 1..Len(ret.value.geometries) :
        /\ IsComponent(ret.value.geometries[k])
        /\ {a.id, b.id} \subseteq Range(ret.value.geometries[k].sourceWayIds)

\* The batch was partitioned by the tag before coalescing: no component
\* holds ways of two values, and ways of one value that touch are merged.
PartitionedBy(tag) ==
    \A i, j \in 1..Len(BatchElements) :
        LET a == BatchElements[i]
            b == BatchElements[j]
        IN  i # j =>
            /\ Together(a, b) => ValueOrEmpty(a, tag) = ValueOrEmpty(b, tag)
            /\ Touch(a, b) /\ ValueOrEmpty(a, tag) = ValueOrEmpty(b, tag) => Together(a, b)

\* The batch was coalesced as one whole: ways that touch are merged.
CoalescedAsWhole ==
    \A i, j \in 1..Len(BatchElements) :
        i # j /\ Touch(BatchElements[i], BatchElements[j]) =>
            Together(BatchElements[i], BatchElements[j])

\* C7 (as stated): the batch is partitioned by the tag when
\* options.groupByTag is given and coalesced as one whole when it is not.
\* Refuted: the code looks at options.groupByEnabled.
C7_PartitionedWhenTagGiven ==
    Returned /\ EndsAreNumeric =>
        IF args.options.groupByTag # ""
        THEN PartitionedBy(args.options.groupByTag)
        ELSE CoalescedAsWhole

\* C7 (amended): the batch is partitioned exactly when options.groupByEnabled
\* is true, by options.groupByTag or by 'name' when no tag is given, ways
\* without a value forming the group of the empty string; otherwise the
\* batch is coalesced as one whole, whether or not a tag is given.
C7_PartitionedWhenEnabled ==
    Returned /\ EndsAreNumeric =>
        IF args.options.groupByEnabled
        THEN PartitionedBy(IF args.options.groupByTag = "" THEN "name"
                           ELSE args.options.groupByTag)
        ELSE CoalescedAsWhole

\* A grouped call on ways that touch: two of one value that were merged, and
\* two of different values that were not.
C7_Witness ==
    /\ Returned
    /\ EndsAreNumeric
    /\ args.options.groupByEnabled
    /\ args.options.groupByTag = "ref"
    /\ \E i, j \in 1..Len(BatchElements) :
          /\ i # j
          /\ Touch(BatchElements[i], BatchElements[j])
          /\ ValueOrEmpty(BatchElements[i], "ref") = ValueOrEmpty(BatchElements[j], "ref")
          /\ Together(BatchElements[i], BatchElements[j])
    /\ \E i, j \in 1..Len(BatchElements) :
          /\ Touch(BatchElements[i], BatchElements[j])
          /\ ValueOrEmpty(BatchElements[i], "ref") # ValueOrEmpty(BatchElements[j], "ref")
          /\ ~Together(BatchElements[i], BatchElements[j])

---------------------------------------------------------------------------
(* Closed area ways.                                                       *)

\* C8: a closed way with area tags is emitted once as a Polygon of type
\* 'way' holding its own points, is in the sourceWayIds of no component and
\* is no LineString; every member of a component is a way that was open, or
\* closed without area tags.
C8_ClosedAreasStayPolygons ==
    Returned =>
        LET g == ret.value.geometries
        IN  /\ \A i \in 1..Len(args.elements) :
                  LET e == args.elements[i]
                  IN  e.type = "way" /\ isClosed(e.geometry) /\ isArea(e.tags) =>
                         /\ Cardinality({k \in 1..Len(g) : IsPolygonOfWay(g[k], e.id)}) = 1
                         /\ \A k \in 1..Len(g) :
                               /\ IsPolygonOfWay(g[k], e.id) =>
                                     /\ g[k].geometry.coordinates = ToCoordinates(e.geometry)
                                     /\ g[k].tags = e.tags
                               /\ ~IsLineStringOfWay(g[k], e.id)
                               /\ IsComponent(g[k]) => e.id \notin Range(g[k].sourceWayIds)
            /\ \A k \in 1..Len(g) :
                  IsComponent(g[k]) => Range(g[k].sourceWayIds) \subseteq BatchIds

\* A result with the Polygon of a closed area way next to a component.
C8_Witness ==
    /\ Returned
    /\ \E i \in 1..Len(args.elements) :
          /\ args.elements[i].type = "way"
          /\ isClosed(args.elements[i].geometry)
          /\ isArea(args.elements[i].tags)
          /\ \E k \in 1..Len(ret.value.geometries) :
                IsPolygonOfWay(ret.value.geometries[k], args.elements[i].id)
    /\ \E k \in 1..Len(ret.value.geometries) : IsComponent(ret.value.geometries[k])

---------------------------------------------------------------------------
(* Bounds.                                                                 *)

\* The coordinate pairs of a geometry, by the nesting of its type.
PairsOf(g) ==
    LET c == g.geometry.coordinates
    IN  CASE g.geometry.type \in {"LineString", "Polygon"} -> Range(c)
          [] g.geometry.type = "MultiLineString" -> UNION {Range(c[i]) : i \in 1..Len(c)}
          [] g.geometry.type = "MultiPolygon" ->
                UNION {UNION {Range(c[i][j]) : j \in 1..Len(c[i])} : i \in 1..Len(c)}

\* b is the exact box of the pairs of P that have both numbers.
IsExactBox(b, P) ==
    LET pairs == {p \in P : IsNumber(p[1]) /\ IsNumber(p[2])}
    IN  /\ pairs # {}
        /\ b.minLon = SetMin({p[1] : p \in pairs})
        /\ b.maxLon = SetMax({p[1] : p \in pairs})
        /\ b.minLat = SetMin({p[2] : p \in pairs})
        /\ b.maxLat = SetMax({p[2] : p \in pairs})
        /\ b.width = b.maxLon - b.minLon
        /\ b.height = b.maxLat - b.minLat

\* C9: the bounds of every geometry parseElements returns are the exact
\* axis-aligned box of the geometry's own coordinate pairs, with
\* width = maxLon - minLon and height = maxLat - minLat.
C9_BoundsAreExact ==
    Returned =>
        \A k \in 1..Len(ret.value.geometries) :
            IsExactBox(ret.value.geometries[k].bounds, PairsOf(ret.value.geometries[k]))

\* A result with a MultiPolygon, and a LineString with a vertex outside the
\* box of its two ends.
C9_Witness ==
    /\ Returned
    /\ \E k \in 1..Len(ret.value.geometries) :
          ret.value.geometries[k].geometry.type = "MultiPolygon"
    /\ \E k \in 1..Len(ret.value.geometries) :
          LET g == ret.value.geometries[k]
          IN  /\ g.geometry.type = "LineString"
              /\ ~IsExactBox(g.bounds, {g.geometry.coordinates[1], Last(g.geometry.coordinates)})

---------------------------------------------------------------------------
(* Branching components.                                                   *)

\* The member ways (of ids) that have an end at the key node; a way whose
\* two ends share the key is one of them once.
WaysAt(ways, ids, node) ==
    {i \in 1..Len(ways) :
        ways[i].id \in ids /\ node \in {FirstNode(ways[i]), LastNode(ways[i])}}

\* The chains are the member ways' own coordinates, one chain per way.
IsPerWay(chains, ways, component) ==
    /\ Len(chains) = Len(component)
    /\ \A k \in 1..Len(component) :
          \E i \in 1..Len(ways) : ways[i].id = component[k] /\ chains[k] = ways[i].coordinates

\* More than two terminals or a node of degree exactly 3, the degree of a
\* node being the number of way ends at its key (two for a way that starts
\* and ends there).
BranchesByEnds(ways, ids) ==
    \/ Cardinality({n \in MemberNodes(ways, ids) : Cardinality(EndsAt(ways, ids, n)) = 1}) > 2
    \/ \E n \in MemberNodes(ways, ids) : Cardinality(EndsAt(ways, ids, n)) = 3

\* The same, the degree of a node being the number of member ways with an
\* end at its key.
BranchesByWays(ways, ids) ==
    \/ Cardinality({n \in MemberNodes(ways, ids) : Cardinality(WaysAt(ways, ids, n)) = 1}) > 2
    \/ \E n \in MemberNodes(ways, ids) : Cardinality(WaysAt(ways, ids, n)) = 3

\* C11 (as stated): a multi-way component is returned as one chain per
\* member way exactly when it has more than 2 terminals or an endpoint of
\* degree 3, counting the way ends that share the endpoint, and as exactly
\* one chain otherwise.  Refuted by a closed way with a tail: three way ends
\* meet at the junction, yet one chain is returned.
C11_BranchingByWayEnds ==
    pc = "done" =>
        \A c \in 1..Len(ret.value.components) :
            Len(ret.value.components[c]) >= 2 =>
                IF BranchesByEnds(args.ways, Range(ret.value.components[c]))
                THEN IsPerWay(ret.value.paths[c], args.ways, ret.value.components[c])
                ELSE Len(ret.value.paths[c]) = 1

\* C11 (amended): the same with the degree of an endpoint key counted as
\* the number of member ways that have an end at the key, a way whose two
\* ends share the key counting once.
C11_BranchingByWays ==
    pc = "done" =>
        \A c \in 1..Len(ret.value.components) :
            Len(ret.value.components[c]) >= 2 =>
                IF BranchesByWays(args.ways, Range(ret.value.components[c]))
                THEN IsPerWay(ret.value.paths[c], args.ways, ret.value.components[c])
                ELSE Len(ret.value.paths[c]) = 1

\* A Y-branch: three ways that share one end key and have three terminals,
\* returned as three chains.
C11_Witness ==
    /\ pc = "done"
    /\ Len(args.ways) = 3
    /\ Len(ret.value.components) = 1
    /\ \E n \in MemberNodes(args.ways, WayIds(args.ways)) :
          Cardinality(WaysAt(args.ways, WayIds(args.ways), n)) = 3
    /\ Cardinality(Terminals(args.ways, WayIds(args.ways))) = 3
    /\ Len(ret.value.paths[1]) = 3

---------------------------------------------------------------------------
(* Relations (specification SpecRelation).                                 *)

TheRelation == CHOOSE e \in Range(args.elements) : e.type = "relation"

\* The [lon, lat] chain of a member's geometry.
ChainOf(member) == [i \in 1..Len(member.geometry) |-> <<member.geometry[i].lon, member.geometry[i].lat>>]

\* The way members with geometry, in member order, that satisfy wanted.
ChainsOf(relation, wanted(_)) ==
    LET chosen == SelectSeq(relation.members,
                            LAMBDA m : m.type = "way" /\ m.geometry # <<>> /\ wanted(m))
    IN  [i \in 1..Len(chosen) |-> ChainOf(chosen[i])]

IsOuter(m) == m.role = "outer"
IsInner(m) == m.role = "inner"
AnyRole(m) == TRUE

\* The merged rings of the relation's outer and inner ways.
OuterRings == mergeWaysIntoRings(ChainsOf(TheRelation, IsOuter))
InnerRings == mergeWaysIntoRings(ChainsOf(TheRelation, IsInner))

\* The returned geometries and warnings of an element.
GeometriesOf(e) ==
    SelectSeq(ret.value.geometries, LAMBDA g : g.type = e.type /\ g.id = e.id)
WarningsOf(e) ==
    SelectSeq(ret.value.warnings, LAMBDA w : w.osmType = e.type /\ w.osmId = e.id)

IsMultipolygonRelation == TagIs(TheRelation.tags, "type", "multipolygon")
IsRouteRelation == TagIs(TheRelation.tags, "type", "route")

\* C12: the coordinates of an accepted multipolygon hold one polygon per
\* merged outer ring, in ring order, and each polygon is that outer ring
\* followed by all merged inner rings.
C12_PolygonPerOuterRing ==
    (Returned /\ IsMultipolygonRelation /\ Len(GeometriesOf(TheRelation)) > 0) =>
        /\ GeometriesOf(TheRelation)[1].geometry.type = "MultiPolygon"
        /\ Len(GeometriesOf(TheRelation)[1].geometry.coordinates) = Len(OuterRings)
        /\ \A k \in 1..Len(OuterRings) :
              GeometriesOf(TheRelation)[1].geometry.coordinates[k] = <<OuterRings[k]>> \o InnerRings

\* One closed outer way and one closed inner way give [[outerRing, innerRing]].
C12_Witness ==
    /\ Returned
    /\ IsMultipolygonRelation
    /\ TheRelation.members = <<MemberOf("outerRing"), MemberOf("innerRing")>>
    /\ Len(GeometriesOf(TheRelation)) = 1
    /\ GeometriesOf(TheRelation)[1].geometry.coordinates =
           << <<ChainOf(MemberOf("outerRing")), ChainOf(MemberOf("innerRing"))>> >>

\* The relation is skipped: no geometry, and one warning that names it.
IsRejected(e) == Len(GeometriesOf(e)) = 0 /\ Len(WarningsOf(e)) = 1

\* C13: a multipolygon relation is rejected, with no geometry and exactly
\* one warning of osmType relation and the relation's id, exactly when no
\* member has geometry, or no way member of role outer with geometry
\* exists, or the outer ways do not merge into at least one closed ring;
\* otherwise it yields exactly one MultiPolygon with the relation's id.
C13_RejectedWithoutOuterRing ==
    (pc = "done" /\ IsMultipolygonRelation) =>
        /\ ret.threw = ""
        /\ IF \/ \A i \in 1..Len(TheRelation.members) : TheRelation.members[i].geometry = <<>>
              \/ ChainsOf(TheRelation, IsOuter) = <<>>
              \/ Len(OuterRings) = 0
           THEN IsRejected(TheRelation)
           ELSE /\ Len(GeometriesOf(TheRelation)) = 1
                /\ GeometriesOf(TheRelation)[1].geometry.type = "MultiPolygon"
                /\ Len(WarningsOf(TheRelation)) = 0

\* A relation whose only way with geometry is an inner ring is rejected.
C13_Witness ==
    /\ Returned
    /\ IsMultipolygonRelation
    /\ ChainsOf(TheRelation, IsInner) # <<>>
    /\ ChainsOf(TheRelation, IsOuter) = <<>>
    /\ IsRejected(TheRelation)

\* C14: when the inner ways give no ring, the relation is still emitted as
\* a MultiPolygon of its outer rings, each polygon without holes, and no
\* warning names the relation.
C14_UnmergedInnersDropped ==
    (Returned /\ IsMultipolygonRelation /\ Len(OuterRings) > 0
       /\ ChainsOf(TheRelation, IsInner) # <<>> /\ Len(InnerRings) = 0) =>
        /\ Len(GeometriesOf(TheRelation)) = 1
        /\ GeometriesOf(TheRelation)[1].geometry.type = "MultiPolygon"
        /\ GeometriesOf(TheRelation)[1].geometry.coordinates =
               [k \in 1..Len(OuterRings) |-> <<OuterRings[k]>>]
        /\ Len(WarningsOf(TheRelation)) = 0

C14_Witness ==
    /\ Returned
    /\ IsMultipolygonRelation
    /\ TheRelation.members = <<MemberOf("outerRing"), MemberOf("innerOpen")>>
    /\ Len(GeometriesOf(TheRelation)) = 1
    /\ GeometriesOf(TheRelation)[1].geometry.coordinates = << <<ChainOf(MemberOf("outerRing"))>> >>

\* Two consecutive chains connect when the end of the first is the start or
\* the end of the second.
GapAt(chains, i) ==
    /\ Last(chains[i]) # chains[i + 1][1]
    /\ Last(chains[i]) # Last(chains[i + 1])

\* C15: a route relation with at least one way member with geometry gives
\* a MultiLineString whose chains are those members' geometries, in member
\* order and original orientation; a gap between consecutive members adds
\* one warning and nothing else (a route of more than
\* ROUTE_MEMBER_WARNING_THRESHOLD such members has one more warning).
C15_RouteKeepsMembers ==
    (pc = "done" /\ IsRouteRelation /\ ChainsOf(TheRelation, AnyRole) # <<>>) =>
        /\ ret.threw = ""
        /\ Len(GeometriesOf(TheRelation)) = 1
        /\ GeometriesOf(TheRelation)[1].geometry =
               [type |-> "MultiLineString", coordinates |-> ChainsOf(TheRelation, AnyRole)]
        /\ Len(WarningsOf(TheRelation)) =
               (IF \E i \in 1..(Len(ChainsOf(TheRelation, AnyRole)) - 1) :
                       GapAt(ChainsOf(TheRelation, AnyRole), i)
                THEN 1 ELSE 0)
               + (IF Len(ChainsOf(TheRelation, AnyRole)) > ROUTE_MEMBER_WARNING_THRESHOLD
                  THEN 1 ELSE 0)

\* A route with a gap, and a member the next one meets end to end.
C15_Witness ==
    /\ Returned
    /\ IsRouteRelation
    /\ TheRelation.members = <<MemberOf("outerHalf"), MemberOf("outerOtherHalf"), MemberOf("outerRing")>>
    /\ GapAt(ChainsOf(TheRelation, AnyRole), 2)
    /\ ~GapAt(ChainsOf(TheRelation, AnyRole), 1)
    /\ Len(GeometriesOf(TheRelation)) = 1
    /\ Len(WarningsOf(TheRelation)) = 1

\* A node, a relation that is neither a route nor a multipolygon, or a way
\* without geometry.
IsUnsupported(e) ==
    \/ e.type = "node"
    \/ e.type = "relation" /\ ~TagIs(e.tags, "type", "route") /\ ~TagIs(e.tags, "type", "multipolygon")
    \/ e.type = "way" /\ e.geometry = <<>>

\* C16: every node, every relation whose type tag is neither route nor
\* multipolygon (or is missing) and every way without geometry yields no
\* geometry and exactly one warning with its osmType and osmId, and the
\* elements after it are processed.
C16_UnsupportedSkipped ==
    pc = "done" =>
        /\ ret.threw = ""
        /\ \A i \in 1..Len(args.elements) :
              IsUnsupported(args.elements[i]) => IsRejected(args.elements[i])
        /\ \A i \in 1..Len(args.elements) :
              IsPolygonWay(args.elements[i]) => Len(GeometriesOf(args.elements[i])) = 1

\* A way without geometry, a relation without a type tag and a building:
\* two warnings and the building's polygon.
C16_Witness ==
    /\ Returned
    /\ Len(args.elements) = 3
    /\ args.elements[1].type = "way" /\ args.elements[1].geometry = <<>>
    /\ ~HasTag(TheRelation.tags, "type")
    /\ TheRelation.members # <<>>
    /\ IsRejected(args.elements[1])
    /\ IsRejected(args.elements[2])
    /\ Len(GeometriesOf(args.elements[3])) = 1
    /\ Len(ret.value.warnings) = 2

---------------------------------------------------------------------------
(* isArea (specification SpecArea).                                        *)

\* The rule list: first match wins.  A key is present when the tags object
\* has it, whatever its value.
AreaRules(tags) ==
    IF tags = {} THEN FALSE
    ELSE IF <<"area", "yes">> \in tags THEN TRUE
    ELSE IF <<"area", "no">> \in tags THEN FALSE
    ELSE IF \E t \in tags : t[1] \in {"building", "landuse", "amenity", "shop", "building:part",
                                      "boundary", "historic", "place", "area:highway"}
    THEN TRUE
    ELSE IF \E t \in tags : t[1] = "highway" /\ t[2] \in {"rest_area", "services", "platform"}
    THEN TRUE
    ELSE IF <<"railway", "platform">> \in tags THEN TRUE
    ELSE IF <<"aeroway", "aerodrome">> \in tags THEN TRUE
    ELSE IF \E t \in tags : t[1] = "leisure" /\ t[2] \notin {"picnic_table", "slipway", "firepit"}
    THEN TRUE
    ELSE IF \E t \in tags : t[1] = "natural" /\ t[2] \in
                {"water", "wood", "scrub", "land", "grassland", "heath", "rock", "bare_rock",
                 "sand", "beach", "scree", "glacier", "shingle", "fell", "reef", "stone",
                 "mud", "landslide"}
    THEN TRUE
    ELSE FALSE

\* C17: isArea(tags) is the value of the ordered rule list for every tag
\* mapping, the presence of a key of the fixed key set giving true
\* whatever its value.  Refuted by a key whose value is the empty string.
C17_AreaRuleList == pc = "done" => ret.value = AreaRules(args.tags)

---------------------------------------------------------------------------
(* isClosed (specification SpecClosed).                                    *)

\* C18: isClosed(C) is true exactly when C has at least 3 points and its
\* first and last points have equal lat and equal lon; a chain of fewer
\* than 3 points is not closed.
C18_ClosedIffThreeAndEqualEnds ==
    pc = "done" =>
        /\ ret.threw = ""
        /\ ret.value = (/\ Len(args.geometry) >= 3
                        /\ args.geometry[1].lat = args.geometry[Len(args.geometry)].lat
                        /\ args.geometry[1].lon = args.geometry[Len(args.geometry)].lon)
        /\ Len(args.geometry) < 3 => ret.value = FALSE

\* A chain of three points that returns to its first point is closed.
C18_Witness ==
    /\ pc = "done"
    /\ Len(args.geometry) = 3
    /\ args.geometry[1] = args.geometry[3]
    /\ args.geometry[2] # args.geometry[1]
    /\ ret.value = TRUE

---------------------------------------------------------------------------
(* generateComponentId (specification SpecComponentId).                    *)

\* The ids of a set in ascending order.
RECURSIVE Ascending(_)
Ascending(S) == IF S = {} THEN <<>> ELSE <<SetMin(S)>> \o Ascending(S \ {SetMin(S)})

\* C19: the component id is 'component_' followed by the member ids in
\* ascending order joined by '_'; the order of the ids in the input does
\* not change it, and different sets of member ids have different ids.
C19_IdOfMemberSet ==
    pc = "done" =>
        /\ ret.value.id = <<"component_">> \o Join(Ascending(Range(args.wayIds)), "_")
        /\ (Range(args.wayIds) = Range(args.otherIds)) <=> (ret.value.id = ret.value.otherId)

\* The same three ids in two different orders, one id with the digits of
\* the two others.
C19_Witness ==
    /\ pc = "done"
    /\ Len(args.wayIds) = 3
    /\ Range(args.wayIds) = {1, 12, 112}
    /\ args.otherIds # args.wayIds
    /\ Range(args.otherIds) = Range(args.wayIds)
    /\ ret.value.id = <<"component_", "1", "_", "1", "2", "_", "1", "1", "2">>
    /\ ret.value.otherId = ret.value.id

---------------------------------------------------------------------------
(* The nesting of coordinates (specification Spec).                        *)

\* v is an array, not a number: TLC writes a sequence as <<...>>.
IsArray(v) == Len(ToString(v)) >= 2 /\ SubSeq(ToString(v), 1, 2) = "<<"

\* A [lon, lat] pair.
IsPosition(v) == IsArray(v) /\ Len(v) = 2 /\ ~IsArray(v[1]) /\ ~IsArray(v[2])

\* Pairs under depth levels of arrays: 1 is a sequence of pairs, 2 a
\* sequence of such sequences, 3 a sequence of those.
RECURSIVE IsNested(_, _)
IsNested(v, depth) ==
    IF depth = 0
    THEN IsPosition(v)
    ELSE IsArray(v) /\ \A i \in 1..Len(v) : IsNested(v[i], depth - 1)

\* The nesting of GeoJSON, and the nesting of the returned geometries.
GeoJsonDepth == [LineString |-> 1, MultiLineString |-> 2, Polygon |-> 2, MultiPolygon |-> 3]
ReturnedDepth == [LineString |-> 1, MultiLineString |-> 2, Polygon |-> 1, MultiPolygon |-> 3]

\* C20 (as stated): the coordinates of every returned geometry have the
\* GeoJSON nesting of its type.  Refuted by the Polygon of a closed area
\* way, whose coordinates are the way's pairs and not a sequence of rings.
C20_GeoJsonNesting ==
    Returned =>
        \A i \in 1..Len(ret.value.geometries) :
            IsNested(ret.value.geometries[i].geometry.coordinates,
                     GeoJsonDepth[ret.value.geometries[i].geometry.type])

\* C20 (amended): a LineString is a sequence of pairs, a MultiLineString a
\* sequence of such sequences, a MultiPolygon a sequence of polygons each a
\* sequence of rings, and a Polygon one ring: a sequence of pairs.
C20_NestingByType ==
    Returned =>
        \A i \in 1..Len(ret.value.geometries) :
            /\ ret.value.geometries[i].geometry.type \in DOMAIN ReturnedDepth
            /\ IsNested(ret.value.geometries[i].geometry.coordinates,
                        ReturnedDepth[ret.value.geometries[i].geometry.type])

\* A result with a Polygon, a MultiPolygon and a LineString.
C20_Witness ==
    /\ Returned
    /\ {ret.value.geometries[i].geometry.type : i \in 1..Len(ret.value.geometries)}
           = {"Polygon", "MultiPolygon", "LineString"}
    /\ \E i \in 1..Len(ret.value.geometries) :
          /\ ret.value.geometries[i].geometry.type = "Polygon"
          /\ IsNested(ret.value.geometries[i].geometry.coordinates, 1)

---------------------------------------------------------------------------
(* Ring merging: all or nothing (specification SpecRings).                 *)

\* The segments of the chains: a chain of n points has n - 1.
Segments(chains) == SumLen(chains) - Len(chains)

\* C21: the result is never a partial list of rings.  When some chain
\* cannot be closed (an end coordinate joins an odd number of chain ends)
\* the result is empty, also when chains before it formed a ring; a
\* non-empty result holds every input chain.
C21_NeverPartial ==
    pc = "done" =>
        /\ (ret.value = <<>>) <=> (args.ways = <<>> \/ CannotClose(args.ways))
        /\ ret.value # <<>> =>
              /\ Segments(ret.value) = Segments(args.ways)
              /\ \A i \in 1..Len(args.ways) :
                    \E k \in 1..Len(ret.value) : OccursIn(args.ways[i], ret.value[k])

\* A closed chain, which the loop commits as a ring, followed by chains
\* that cannot close: the result is empty.
C21_Witness ==
    /\ pc = "done"
    /\ Len(args.ways) = 3
    /\ coordsEqual(args.ways[1][1], Last(args.ways[1]))
    /\ ~coordsEqual(args.ways[2][1], Last(args.ways[2]))
    /\ CannotClose(args.ways)
    /\ ret.value = <<>>

\* C22: in a non-empty result every ring has its first coordinate equal to
\* its last; the rings hold every input chain and as many segments as the
\* input, so that each chain is in one ring; a closed accumulator is
\* committed before anything is attached to it, so that a closed first
\* chain is the first ring; one chain is returned exactly when it is
\* closed, and no chains give the empty list.
C22_RingsClosedAndComplete ==
    pc = "done" =>
        /\ \A k \in 1..Len(ret.value) : ret.value[k][1] = Last(ret.value[k])
        /\ ret.value # <<>> =>
              /\ Segments(ret.value) = Segments(args.ways)
              /\ \A i \in 1..Len(args.ways) :
                    \E k \in 1..Len(ret.value) : OccursIn(args.ways[i], ret.value[k])
              /\ args.ways[1][1] = Last(args.ways[1]) => ret.value[1] = args.ways[1]
        /\ Len(args.ways) = 1 =>
              ret.value = IF args.ways[1][1] = Last(args.ways[1]) THEN args.ways ELSE <<>>
        /\ Len(args.ways) = 0 => ret.value = <<>>

\* A closed first chain and two chains that close a second ring through
\* the same coordinate: two rings, the first one the first chain.
C22_Witness ==
    /\ pc = "done"
    /\ Len(args.ways) = 3
    /\ args.ways[1][1] = Last(args.ways[1])
    /\ args.ways[2][1] = args.ways[1][1]
    /\ args.ways[2][1] # Last(args.ways[2])
    /\ Len(ret.value) = 2
    /\ ret.value[1] = args.ways[1]

---------------------------------------------------------------------------
(* The endpoint map and the components (specification SpecComponents).     *)

\* The entries of the map: key, place in the key's list, and the entry.
EntriesOf(m) ==
    UNION {{<<m.keys[k], j>> : j \in 1..Len(m.val[m.keys[k]])} : k \in 1..Len(m.keys)}

EntriesFor(m, id, position) ==
    {e \in EntriesOf(m) : m.val[e[1]][e[2]] = [wayId |-> id, position |-> position]}

\* The two end keys of the way differ.
IsOpenByKey(way) == FirstNode(way) # LastNode(way)

\* C23: in the map of buildEndpointMap every way has exactly one start
\* entry, under the key of its first coordinate, and exactly one end entry,
\* under the key of its last coordinate, unless the two keys are equal:
\* then it has the start entry only.  There are no other entries: their
\* number is the number of ways plus the number of ways whose keys differ.
C23_EndpointEntries ==
    pc = "done" =>
        /\ \A i \in 1..Len(args.ways) :
              /\ Cardinality(EntriesFor(ret.value.endpointMap, args.ways[i].id, "start")) = 1
              /\ \A e \in EntriesFor(ret.value.endpointMap, args.ways[i].id, "start") :
                    e[1] = FirstNode(args.ways[i])
              /\ Cardinality(EntriesFor(ret.value.endpointMap, args.ways[i].id, "end")) =
                    IF IsOpenByKey(args.ways[i]) THEN 1 ELSE 0
              /\ \A e \in EntriesFor(ret.value.endpointMap, args.ways[i].id, "end") :
                    e[1] = LastNode(args.ways[i])
        /\ Cardinality(EntriesOf(ret.value.endpointMap)) =
              Len(args.ways) + Cardinality({i \in 1..Len(args.ways) : IsOpenByKey(args.ways[i])})
        /\ Cardinality(Range(ret.value.endpointMap.keys)) = Len(ret.value.endpointMap.keys)

\* Three ways, one whose end coordinates differ and have the same key, one
\* with two different keys: four entries.
C23_Witness ==
    /\ pc = "done"
    /\ Len(args.ways) = 3
    /\ \E i \in 1..3 : /\ ~IsOpenByKey(args.ways[i])
                       /\ args.ways[i].coordinates[1] # Last(args.ways[i].coordinates)
    /\ Cardinality({i \in 1..3 : IsOpenByKey(args.ways[i])}) = 1
    /\ Cardinality(EntriesOf(ret.value.endpointMap)) = 4

\* The ways (by place in the input) linked to those of S by a sequence of
\* ways in which consecutive ways share an end key.
RECURSIVE LinkedTo(_, _)
LinkedTo(ways, S) ==
    LET T == S \cup {j \in 1..Len(ways) :
                        \E i \in S : {FirstNode(ways[i]), LastNode(ways[i])}
                                       \cap {FirstNode(ways[j]), LastNode(ways[j])} # {}}
    IN  IF T = S THEN S ELSE LinkedTo(ways, T)

\* The place in the input of the first way of the component.
SeedPlace(ways, component) == SetMin({i \in 1..Len(ways) : ways[i].id \in Range(component)})

\* C24: two ways are in the same component exactly when a sequence of ways
\* in which consecutive ways share an end key links them; the components
\* come in the order in which their seed ways stand in the input, and the
\* first id of a component is its seed way.
C24_ComponentsByEndKeys ==
    pc = "done" =>
        /\ \A i \in 1..Len(args.ways) :
              \E c \in 1..Len(ret.value.components) :
                  Range(ret.value.components[c])
                      = {args.ways[j].id : j \in LinkedTo(args.ways, {i})}
        /\ \A c \in 1..Len(ret.value.components) :
              /\ ret.value.components[c][1] = args.ways[SeedPlace(args.ways, ret.value.components[c])].id
              /\ \A d \in (c + 1)..Len(ret.value.components) :
                    SeedPlace(args.ways, ret.value.components[c])
                        < SeedPlace(args.ways, ret.value.components[d])

\* Two ways that share an end key are one component, and a way whose ends
\* are an interior vertex of both is a component of its own.
C24_Witness ==
    /\ pc = "done"
    /\ Len(args.ways) = 3
    /\ Len(ret.value.components) = 2
    /\ \E c \in 1..2 : \E i \in 1..3 :
          /\ ret.value.components[c] = <<args.ways[i].id>>
          /\ \A j \in 1..3 :
                args.ways[i].coordinates[1] \in Range(args.ways[j].coordinates)
    /\ \E i \in 1..3 : \E j \in 1..3 :
          /\ i # j
          /\ IsOpenByKey(args.ways[i]) /\ IsOpenByKey(args.ways[j])
          /\ LastNode(args.ways[i]) \in {FirstNode(args.ways[j]), LastNode(args.ways[j])}
          /\ j \in LinkedTo(args.ways, {i})

---------------------------------------------------------------------------
(* Components of the batch (specification SpecBatch).                      *)

\* The input way of an id.
ElementOfId(id) == CHOOSE e \in Range(args.elements) : e.id = id

KeysOf(coordinates) == [i \in 1..Len(coordinates) |-> coordinateToKey(coordinates[i])]

\* The way's points lie in the coordinates as a run of consecutive pairs,
\* forward or reversed; a pair stands for any pair of its 7-digit key, as
\* the join of two ways keeps one of their two end pairs.
IsCovered(id, coordinates) == OccursIn(KeysOf(ChainOf(ElementOfId(id))), KeysOf(coordinates))

\* C25: a component of several ways is a LineString only when its
\* coordinates hold the coordinates of every way of its sourceWayIds, which
\* its _component_way_count tag counts.  Refuted by a walk that stops
\* early: the ways it did not reach are listed and counted, and their
\* coordinates are missing.
C25_LineStringHoldsEveryWay ==
    Returned =>
        \A k \in 1..Len(ret.value.geometries) :
            (IsComponent(ret.value.geometries[k])
               /\ ret.value.geometries[k].geometry.type = "LineString") =>
                /\ <<"_component_way_count", Len(ret.value.geometries[k].sourceWayIds)>>
                      \in ret.value.geometries[k].tags
                /\ \A i \in 1..Len(ret.value.geometries[k].sourceWayIds) :
                      IsCovered(ret.value.geometries[k].sourceWayIds[i],
                                ret.value.geometries[k].geometry.coordinates)

\* The ways of the batch that have the grouping value of way e.
SameValue(e, tag) ==
    {i \in 1..Len(BatchElements) :
        ValueOrEmpty(BatchElements[i], tag) = ValueOrEmpty(e, tag)}

\* The ways among `within` that a sequence of ways of `within`, consecutive
\* ones sharing an endpoint key, links to a way of S.
RECURSIVE LinkedWithin(_, _)
LinkedWithin(S, within) ==
    LET T == S \cup {j \in within :
                        \E i \in S : Touch(BatchElements[i], BatchElements[j])}
    IN  IF T = S THEN S ELSE LinkedWithin(T, within)

\* The ids of the ways emitted together with the way of id `id`: the
\* sourceWayIds of its component, or the id alone for a way emitted singly.
EmittedWith(id) ==
    UNION {IF IsComponent(ret.value.geometries[k])
           THEN IF id \in Range(ret.value.geometries[k].sourceWayIds)
                THEN Range(ret.value.geometries[k].sourceWayIds) ELSE {}
           ELSE IF ret.value.geometries[k].id = id THEN {id} ELSE {}
           : k \in 1..Len(ret.value.geometries)}

\* C26: in grouped mode the member ways of every component have one value
\* of the grouping tag, a missing or empty value counting as the empty
\* string, and the ways emitted together with a way are the ways of its
\* value linked to it through endpoints of ways of that value only.
C26_ComponentsWithinGroup ==
    Returned /\ args.options.groupByEnabled =>
        /\ \A k \in 1..Len(ret.value.geometries) :
              IsComponent(ret.value.geometries[k]) =>
                  \A a, b \in Range(ret.value.geometries[k].sourceWayIds) :
                      ValueOrEmpty(ElementOfId(a), "name") = ValueOrEmpty(ElementOfId(b), "name")
        /\ \A i \in 1..Len(BatchElements) :
              EmittedWith(BatchElements[i].id)
                  = {BatchElements[j].id :
                        j \in LinkedWithin({i}, SameValue(BatchElements[i], "name"))}

\* A grouped call in which two ways of different values share an endpoint,
\* two ways of one value are linked only through a way of another value,
\* and ways without a value and with an empty value are one component.
C26_Witness ==
    /\ Returned /\ args.options.groupByEnabled
    /\ \E i, j, l \in 1..Len(BatchElements) :
          /\ ValueOrEmpty(BatchElements[i], "name") = "x"
          /\ ValueOrEmpty(BatchElements[l], "name") = "x"
          /\ ValueOrEmpty(BatchElements[j], "name") # "x"
          /\ Touch(BatchElements[i], BatchElements[j])
          /\ ~Together(BatchElements[i], BatchElements[j])
          /\ Touch(BatchElements[j], BatchElements[l])
          /\ ~Touch(BatchElements[i], BatchElements[l])
          /\ ~Together(BatchElements[i], BatchElements[l])
    /\ \E i, j \in 1..Len(BatchElements) :
          /\ \A t \in BatchElements[i].tags : t[1] # "name"
          /\ <<"name", "">> \in BatchElements[j].tags
          /\ Together(BatchElements[i], BatchElements[j])

---------------------------------------------------------------------------
(* Every way of the batch is emitted once (specification Spec).            *)

\* The places of the result that account for the way of id `id`: a
\* LineString of type 'way' with that id, or a position of the
\* sourceWayIds of a component.
AccountsOf(id) ==
    {<<k, 0>> : k \in {l \in 1..Len(ret.value.geometries) :
                          /\ ~IsComponent(ret.value.geometries[l])
                          /\ IsLineStringOfWay(ret.value.geometries[l], id)}}
    \cup UNION {{<<k, p>> : p \in {q \in 1..Len(ret.value.geometries[k].sourceWayIds) :
                                      ret.value.geometries[k].sourceWayIds[q] = id}}
                : k \in {l \in 1..Len(ret.value.geometries) :
                            IsComponent(ret.value.geometries[l])}}

\* The ids that the LineStrings of type 'way' and the components account
\* for.
AccountedIds ==
    UNION {IF IsComponent(ret.value.geometries[k])
           THEN Range(ret.value.geometries[k].sourceWayIds)
           ELSE IF ret.value.geometries[k].type = "way"
                   /\ ret.value.geometries[k].geometry.type = "LineString"
                THEN {ret.value.geometries[k].id} ELSE {}
           : k \in 1..Len(ret.value.geometries)}

\* C27: in every call that returns, each way of the batch is the id of
\* exactly one LineString of type 'way' or stands exactly once in the
\* sourceWayIds of exactly one component, never both; nothing else is
\* accounted for, and the ways of a bulk batch come out one by one.
C27_EachWayOnce ==
    Returned =>
        /\ \A i \in 1..Len(BatchElements) : Cardinality(AccountsOf(BatchElements[i].id)) = 1
        /\ AccountedIds = BatchIds
        /\ ret.value.bulkGeometries = args.bulk

\* A grouped call on three ways that gave a component of two ways and the
\* third way singly.
C27_Witness ==
    /\ Returned
    /\ args.options.groupByEnabled
    /\ Len(BatchElements) = 3
    /\ \E k, l \in 1..Len(ret.value.geometries) :
          /\ IsComponent(ret.value.geometries[k])
          /\ Len(ret.value.geometries[k].sourceWayIds) = 2
          /\ ~IsComponent(ret.value.geometries[l])
          /\ ret.value.geometries[l].id \in BatchIds

---------------------------------------------------------------------------
(* The input after a call (specification SpecRepeat).                      *)

\* The way objects of the batch as the last call left them.
OpenWaysLeft ==
    OpenWaysLeftBy(ParseLoop(args.elements, Parsed(<<>>, <<>>, <<>>, "")), args.bulk, args.options)

---------------------------------------------------------------------------
(* The grid and the lazy loading state (specification SpecGrid).           *)

\* The grid shows the items 0 .. renderedCount - 1 of the current list,
\* each once and in sequence.
ShowsRenderedPrefix ==
    gridContainer = renderBatch(<<>>, currentGeometries, 0, lazyLoadState.renderedCount)

\* C29: in every interleaving of scrolls, timer callbacks, sort changes and
\* results the grid shows exactly the items 0 .. renderedCount - 1 of the
\* current list, renderedCount is at most totalCount, and at most one batch
\* load is pending.  It is stated here for the states in which lazy loading
\* is enabled only, which is less than the claim says; refuted by a sort
\* change or a result between loadMoreItems and its timer callback.
C29_GridShowsRenderedPrefix ==
    /\ Len(timers) <= 1
    /\ lazyLoadState.enabled =>
          /\ ShowsRenderedPrefix
          /\ lazyLoadState.renderedCount <= lazyLoadState.totalCount

---------------------------------------------------------------------------
(* Termination of the loops (specification SpecLoops).                     *)

\* What the function that was called returns for its arguments.
ResultOfCall ==
    IF "componentWayIds" \in DOMAIN args
    THEN orderComponentIntoPath(args.componentWayIds, args.wayMap, args.endpointMap).chains
    ELSE IF "endpointMap" \in DOMAIN args
    THEN findConnectedComponents(args.ways, args.endpointMap)
    ELSE mergeWaysIntoRings(args.ways)

\* C30: every call runs to completion: the ring merging loop, the
\* traversal of the components and the walk of the path orderer each come
\* to their end on every input, with the result of the function.
C30_EveryLoopTerminates == <>(pc = "done" /\ ret = Return(ResultOfCall))

\* Calls that ended: a walk that stopped before every way of the component
\* was used.
C30_Witness ==
    /\ pc = "done"
    /\ "componentWayIds" \in DOMAIN args
    /\ ~locals.found
    /\ Cardinality(locals.used) < Len(args.componentWayIds)

====
